---- MODULE Spec2Model ----
(***************************************************************************)
(* Task lifecycle and deadline-notification engine of the assistant bot:   *)
(* the task store and the reminders table (SQLite), the status transition  *)
(* use case (updateTaskStatus), assignment (assignTask) with its           *)
(* auto-transition, the periodic reminders job (sendReminders), the user   *)
(* settings (settingsRepo), the daily digest job (sendDailyDigest), the    *)
(* job scheduler, the cleanup job and the board client's retry logic.      *)
(*                                                                         *)
(* Time is counted in whole hours since an epoch that falls on a UTC       *)
(* midnight.  Asynchronous use cases are split at their awaits: one action *)
(* per synchronous stretch of code between two suspension points.          *)
(***************************************************************************)
EXTENDS Integers, Sequences, FiniteSets, TLC

\* ------------------------------------------------------------------ bounds
MaxOps == 3        \* use-case invocations started in one behaviour
MaxSweeps == 2     \* sendReminders invocations in one behaviour
MaxTicks == 3      \* clock advances in one behaviour
MaxDigestRuns == 2 \* sendDailyDigest invocations in one behaviour
MaxSetups == 2     \* setupScheduledJobs calls in one behaviour
MaxFires == 2      \* firing times in one behaviour

\* ------------------------------------------------------------- value sets
None == "none"                      \* SQL NULL / JS null / undefined
NoDue == -1                         \* tasks.due_date IS NULL
NoSentAt == -1                      \* reminders.sent_at IS NULL

TaskIds == {"t1", "t2"}             \* planka_card_id values
Users == {"A", "B"}                 \* telegram ids that have a users row
Strangers == {"Z"}                  \* a telegram id with no users row
Calls == {"c1", "c2"}               \* handler invocations that may be in flight

TODO == "todo"
IN_PROGRESS == "in_progress"
IN_REVIEW == "in_review"
DONE == "done"
TaskStatus == {TODO, IN_PROGRESS, IN_REVIEW, DONE}

NOT_FOUND == "NOT_FOUND"
INVALID_STATUS_TRANSITION == "INVALID_STATUS_TRANSITION"
PLANKA_ERROR == "PLANKA_ERROR"
ASSIGNEE_NOT_FOUND == "ASSIGNEE_NOT_FOUND"
DB_ERROR == "DB_ERROR"

\* tasks.created_by is set once, at creation: fixed per task in this model
CreatorOf == [t \in TaskIds |-> IF t = "t1" THEN "B" ELSE "A"]

\* users.planka_user_id: A is linked to a board account, B has neither a
\* board id nor an email (assignTask then makes no membership call)
HasPlankaUserId == [u \in Users |-> u = "A"]

\* ------------------------------------------------------------------ board
\* A board list name is represented by the set of candidate names it
\* contains as a substring, case-insensitively (what getListForStatus tests).
\* Russian candidates are written in transliteration.
Kanban == << {"todo"}, {"in progress"}, {"review"}, {"done"} >>
TwoPlain == << {}, {} >>
Boards == { Kanban, TwoPlain, << >> }

\* boards whose names and positions disagree: the four lists in reverse
\* order; a "Backlog" list before the "Todo" list; three lists without a
\* "done" name, the last one a "Testing / review" list
Reversed == << {"done"}, {"review"}, {"in progress"}, {"todo"} >>
BacklogFirst == << {"backlog"}, {"todo"}, {"doing"}, {"done", "finished"} >>
ThreeLists == << {"novye"}, {}, {"testing", "review"} >>
ResolveBoards == Boards \cup { Reversed, BacklogFirst, ThreeLists }

statusToListName ==
    [s \in TaskStatus |->
        CASE s = TODO        -> << "todo", "novye", "novaya", "backlog", "k vypolneniyu" >>
          [] s = IN_PROGRESS -> << "in progress", "v rabote", "doing", "vypolnyaetsya" >>
          [] s = IN_REVIEW   -> << "review", "proverka", "na proverke", "testing" >>
          [] s = DONE        -> << "done", "gotovo", "vypolneno", "completed", "finished" >>]

\* lists.find(l => l.name.toLowerCase().includes(name)): 1-based position
\* of the first list containing the candidate, 0 when there is none
FindList(lists, name) ==
    IF \E i \in 1..Len(lists) : name \in lists[i]
    THEN CHOOSE i \in 1..Len(lists) :
            /\ name \in lists[i]
            /\ \A j \in 1..(i - 1) : name \notin lists[j]
    ELSE 0

RECURSIVE FirstByName(_, _, _)
FirstByName(lists, names, k) ==
    IF k > Len(names) THEN 0
    ELSE IF FindList(lists, names[k]) # 0 THEN FindList(lists, names[k])
    ELSE FirstByName(lists, names, k + 1)

\* statusToIndex, as a 1-based position (lists[index] of the code is
\* lists[index + 1] here); DONE is lists.length - 1, the last list
statusToIndex(lists, s) ==
    CASE s = TODO        -> 1
      [] s = IN_PROGRESS -> 2
      [] s = IN_REVIEW   -> 3
      [] s = DONE        -> Len(lists)

\* mutant: the list is taken by position only
getListForStatus_IndexOnly(lists, s) ==
    IF statusToIndex(lists, s) \in 1..Len(lists) THEN statusToIndex(lists, s) ELSE 0

\* getListForStatus: the position of the resolved list, 0 for undefined
getListForStatus(lists, s) ==
    IF FirstByName(lists, statusToListName[s], 1) # 0
    THEN FirstByName(lists, statusToListName[s], 1)
    ELSE IF statusToIndex(lists, s) \in 1..Len(lists)
         THEN statusToIndex(lists, s)
         ELSE 0

\* ------------------------------------------------------------------ state
VARIABLES
    tasks,      \* tasks table: card id -> row
    reminders,  \* reminders table: set of rows
    board,      \* the lists of the Planka board
    cardList,   \* board side: the list each card was last moved to
    calls,      \* in-flight use-case invocations, with their locals
    ops,        \* use-case invocations started so far
    now,        \* wall clock, hours
    outbox,     \* delivery requests made to Telegram, in order
    sweeps,     \* sendReminders invocations so far
    ticks,      \* clock advances so far
    unreachable, \* users Telegram cannot deliver to (they blocked the bot)
    settings,   \* settings table: one row per user, or none
    roles,      \* users.role of each user
    digestRun,  \* the sendDailyDigest invocation in progress, if any
    digests,    \* digest messages handed to Telegram, in order
    digestRuns, \* sendDailyDigest invocations so far
    lastRead,   \* what the last read of a user's settings returned
    cronTasks,     \* node-cron tasks created so far, each scheduled or stopped
    scheduledJobs, \* the scheduledJobs map: job name -> task
    inflight,      \* invocations of each job's callback that have not returned
    errorLog,      \* errors logged by the catch of a job's callback
    crashed,       \* an exception left a callback uncaught
    hasRunning,    \* the cron task objects expose a `running` property
    lastStatus,    \* what the last getJobsStatus call returned
    lastOp,        \* the last scheduler operation or firing
    setups,        \* setupScheduledJobs calls so far
    fires,         \* firing times so far
    http,          \* the board client's request in progress
    requests,      \* board client requests issued so far
    token,         \* the board client holds an unexpired token
    cleanupLog,    \* oldReminders of the last cleanup run's log line (<< >>: no run yet)
    bulk           \* the bulkUpdateStatus invocation in progress, or its result

digestVars == << settings, roles, digestRun, digests, digestRuns, lastRead >>

schedVars == << cronTasks, scheduledJobs, inflight, errorLog, crashed, hasRunning,
               lastStatus, lastOp, setups, fires >>

httpVars == << http, requests, token >>

jobVars == << cleanupLog, bulk >>

storeVars == << tasks, reminders, board, cardList, calls, ops, now, outbox, sweeps, ticks,
               unreachable >>

vars == << tasks, reminders, board, cardList, calls, ops, now, outbox, sweeps, ticks,
          unreachable, digestVars, schedVars, httpVars, jobVars >>

AbsentTask ==
    [exists |-> FALSE, status |-> TODO, createdBy |-> None,
     assignedTo |-> None, dueDate |-> NoDue]

IdleCall ==
    [op |-> None, pc |-> "idle", task |-> None, target |-> None,
     assignee |-> None, prev |-> None, api |-> << >>, err |-> None,
     ret |-> None, actor |-> None, previousAssignee |-> None, targetList |-> 0]

\* no row in settings for a user
NoSettingsRow ==
    [exists |-> FALSE, digestHour |-> 0, digestEnabled |-> 0, notificationsEnabled |-> 0]

\* no sendDailyDigest invocation in progress
NoDigestRun == [active |-> FALSE, kind |-> None, queue |-> << >>]

\* no settings read yet
NoRead ==
    [user |-> None,
     digest |-> [digestEnabled |-> FALSE, digestHour |-> 0, notificationsEnabled |-> FALSE],
     repo |-> [userId |-> None, digestHour |-> 0, digestEnabled |-> FALSE,
               notificationsEnabled |-> FALSE]]

\* the digest side at rest: no settings rows, no privileged user, no run
DigestIdle ==
    /\ settings = [u \in Users |-> NoSettingsRow]
    /\ roles = [u \in Users |-> "employee"]
    /\ digestRun = NoDigestRun
    /\ digests = << >>
    /\ digestRuns = 0
    /\ lastRead = NoRead

\* the names under which setupScheduledJobs registers its jobs
JobNames == {"reminders", "morning_digest", "evening_digest", "cleanup"}

\* no scheduler call or firing yet
NoSchedOp == [op |-> None, name |-> None, started |-> 0]

\* no board request in progress: the request's config carries neither _retry
\* nor _retryCount (an undefined _retryCount is the empty sequence)
IdleRequest ==
    [phase |-> "idle", retry |-> FALSE, retryCount |-> << >>, sends |-> 0,
     history |-> << >>, delays |-> << >>, stack |-> << >>, authSends |-> 0,
     outcome |-> None]

\* no bulkUpdateStatus invocation yet
NoBulk ==
    [active |-> FALSE, queue |-> << >>, target |-> None, updated |-> << >>,
     failed |-> << >>]

\* the scheduler before setupScheduledJobs and the board client at rest
ServicesIdle ==
    /\ cronTasks = {}
    /\ scheduledJobs = [n \in JobNames |-> 0]
    /\ inflight = [n \in JobNames |-> 0]
    /\ errorLog = 0
    /\ crashed = FALSE
    /\ hasRunning = FALSE
    /\ lastStatus = [n \in JobNames |-> "absent"]
    /\ lastOp = NoSchedOp
    /\ setups = 0
    /\ fires = 0
    /\ http = IdleRequest
    /\ requests = 0
    /\ token = TRUE
    /\ cleanupLog = << >>
    /\ bulk = NoBulk

\* ------------------------------------------------- status transition engine
\* mutant: TODO may also go straight to IN_REVIEW
allowedTransitions_Lax ==
    [s \in TaskStatus |->
        CASE s = TODO        -> {IN_PROGRESS, IN_REVIEW, DONE}
          [] s = IN_PROGRESS -> {TODO, IN_REVIEW, DONE}
          [] s = IN_REVIEW   -> {IN_PROGRESS, DONE}
          [] s = DONE        -> {TODO, IN_PROGRESS}]

\* allowedTransitions of validateStatusTransition
allowedTransitions ==
    [s \in TaskStatus |->
        CASE s = TODO        -> {IN_PROGRESS, DONE}
          [] s = IN_PROGRESS -> {TODO, IN_REVIEW, DONE}
          [] s = IN_REVIEW   -> {IN_PROGRESS, DONE}
          [] s = DONE        -> {TODO, IN_PROGRESS}]

\* validateStatusTransition: TRUE when it returns, FALSE when it throws
validateStatusTransition(from, to) == to \in allowedTransitions[from]

\* mutant: the status field is left out of the UPDATE
SetStatus_Lost(store, t, s) == store

\* mutant: the name of the enum member is written, not its value
SetStatus_EnumKey(store, t, s) ==
    [store EXCEPT ![t].status = IF s = IN_PROGRESS THEN "IN_PROGRESS" ELSE s]

\* tasksRepo.update(id, {status}): the row with the new status
SetStatus(store, t, s) == [store EXCEPT ![t].status = s]

\* tasksRepo.update(id, {assignedTo})
SetAssignee(store, t, u) == [store EXCEPT ![t].assignedTo = u]

\* mutant: the same-status shortcut is missing
BeginTransition_NoShortcut(rec, store, t, s) ==
    IF ~store[t].exists
    THEN [rec EXCEPT !.pc = "failed", !.err = NOT_FOUND]
    ELSE IF ~validateStatusTransition(store[t].status, s)
    THEN [rec EXCEPT !.pc = "failed", !.prev = store[t].status,
                     !.err = INVALID_STATUS_TRANSITION]
    ELSE [rec EXCEPT !.pc = "lists", !.prev = store[t].status,
                     !.api = Append(rec.api, "getBoardLists")]

\* mutant: the task is not checked for null; reading task.status throws
BeginTransition_NoLookup(rec, store, t, s) ==
    IF ~store[t].exists
    THEN [rec EXCEPT !.pc = "failed", !.err = "TypeError"]
    ELSE IF store[t].status = s
    THEN [rec EXCEPT !.pc = "returned", !.prev = store[t].status,
                     !.ret = store[t].status]
    ELSE IF ~validateStatusTransition(store[t].status, s)
    THEN [rec EXCEPT !.pc = "failed", !.prev = store[t].status,
                     !.err = INVALID_STATUS_TRANSITION]
    ELSE [rec EXCEPT !.pc = "lists", !.prev = store[t].status,
                     !.api = Append(rec.api, "getBoardLists")]

\* The synchronous head of updateTaskStatus (lines 27-56), run on behalf of
\* call c against the store `store`: the call record it leaves.
\*   - unknown task: throws NOT_FOUND
\*   - same status: returns the task as read
\*   - pair outside the table: throws INVALID_STATUS_TRANSITION
\*   - otherwise plankaClient.getBoardLists() is issued and awaited
BeginTransition(rec, store, t, s) ==
    IF ~store[t].exists
    THEN [rec EXCEPT !.pc = "failed", !.err = NOT_FOUND]
    ELSE IF store[t].status = s
    THEN [rec EXCEPT !.pc = "returned", !.prev = store[t].status,
                     !.ret = store[t].status]
    ELSE IF ~validateStatusTransition(store[t].status, s)
    THEN [rec EXCEPT !.pc = "failed", !.prev = store[t].status,
                     !.err = INVALID_STATUS_TRANSITION]
    ELSE [rec EXCEPT !.pc = "lists", !.prev = store[t].status,
                     !.api = Append(rec.api, "getBoardLists")]

\* updateTaskStatus(taskId, newStatus, userId) is invoked
StartUpdateStatusBy(c, t, s, userId) ==
    /\ calls[c].pc = "idle"
    /\ ops < MaxOps
    /\ calls' = [calls EXCEPT ![c] =
                    BeginTransition([IdleCall EXCEPT !.op = "updateTaskStatus",
                                                     !.task = t, !.target = s,
                                                     !.actor = userId],
                                    tasks, t, s)]
    /\ ops' = ops + 1
    /\ UNCHANGED << tasks, reminders, board, cardList, now, outbox, sweeps, ticks, unreachable, digestVars, schedVars, httpVars, jobVars >>

\* updateTaskStatus invoked by a registered user
StartUpdateStatus(c, t, s) == StartUpdateStatusBy(c, t, s, "A")

\* mutant: the status is written locally before the card is moved
ListsResolved_WriteFirst(c) ==
    /\ calls[c].pc = "lists"
    /\ calls' = [calls EXCEPT ![c] =
                    IF getListForStatus(board, calls[c].target) = 0
                    THEN [@ EXCEPT !.pc = "failed", !.err = PLANKA_ERROR]
                    ELSE [@ EXCEPT !.pc = "card",
                                   !.api = Append(calls[c].api, "updateCard")]]
    /\ tasks' = IF getListForStatus(board, calls[c].target) = 0
                THEN tasks
                ELSE SetStatus(tasks, calls[c].task, calls[c].target)
    /\ UNCHANGED << reminders, board, cardList, ops, now, outbox, sweeps, ticks, unreachable, digestVars, schedVars, httpVars, jobVars >>

\* getBoardLists resolves: the target list is looked up; with none the use
\* case throws PLANKA_ERROR, otherwise updateCard is issued and awaited
ListsResolved(c) ==
    /\ calls[c].pc = "lists"
    /\ calls' = [calls EXCEPT ![c] =
                    IF getListForStatus(board, calls[c].target) = 0
                    THEN [@ EXCEPT !.pc = "failed", !.err = PLANKA_ERROR]
                    ELSE [@ EXCEPT !.pc = "card",
                                   !.targetList = getListForStatus(board, calls[c].target),
                                   !.api = Append(calls[c].api, "updateCard")]]
    /\ UNCHANGED << tasks, reminders, board, cardList, ops, now, outbox, sweeps, ticks, unreachable, digestVars, schedVars, httpVars, jobVars >>

\* the board serves the PATCH /cards/:id request: the card changes list
BoardMovesCard(c) ==
    /\ calls[c].pc = "card"
    /\ cardList' = [cardList EXCEPT ![calls[c].task] = calls[c].target]
    /\ calls' = [calls EXCEPT ![c].pc = "moved"]
    /\ UNCHANGED << tasks, reminders, board, ops, now, outbox, sweeps, ticks, unreachable, digestVars, schedVars, httpVars, jobVars >>

\* updateCard resolves: the status is written to the tasks table (lines
\* 72-82), the acting user is read and the comment text is built from it
\* (lines 85-86), then the use case returns. For a userId without a users
\* row getByTelegramId returns null and formatStatusChangeComment throws a
\* TypeError on user.fullName, after the write
PersistStatus(c) ==
    /\ calls[c].pc = "moved"
    /\ tasks' = SetStatus(tasks, calls[c].task, calls[c].target)
    /\ calls' = IF calls[c].actor \in Users
                THEN [calls EXCEPT ![c].pc = "returned",
                                   ![c].ret = IF calls[c].op = "assignTask"
                                              THEN calls[c].ret
                                              ELSE calls[c].target]
                ELSE [calls EXCEPT ![c].pc = "failed", ![c].err = "TypeError"]
    /\ UNCHANGED << reminders, board, cardList, ops, now, outbox, sweeps, ticks, unreachable, digestVars, schedVars, httpVars, jobVars >>

\* a board call rejects (HTTP error, timeout, lost response): the client
\* wraps it in PLANKA_ERROR and the use case propagates it
BoardCallFails(c) ==
    /\ calls[c].pc \in {"member", "lists", "card", "moved"}
    /\ calls' = [calls EXCEPT ![c].pc = "failed", ![c].err = PLANKA_ERROR]
    /\ UNCHANGED << tasks, reminders, board, cardList, ops, now, outbox, sweeps, ticks, unreachable, digestVars, schedVars, httpVars, jobVars >>

\* the caller has consumed the result; the slot is free again
Finish(c) ==
    /\ calls[c].pc \in {"returned", "failed"}
    /\ calls' = [calls EXCEPT ![c] = IdleCall]
    /\ UNCHANGED << tasks, reminders, board, cardList, ops, now, outbox, sweeps, ticks, unreachable, digestVars, schedVars, httpVars, jobVars >>

\* ------------------------------------------------------------- assignment
\* assignTask lines 110-123 with autoUpdateStatusOnAssign: the assignee is
\* written, the task is read again and, when it is in TODO, updateTaskStatus
\* (IN_PROGRESS) starts; `ret` is updatedTask of line 111
PersistAssignee(rec, store, t, u) ==
    IF store[t].status = TODO
    THEN BeginTransition([rec EXCEPT !.ret = store[t].status,
                                     !.target = IN_PROGRESS],
                         SetAssignee(store, t, u), t, IN_PROGRESS)
    ELSE [rec EXCEPT !.pc = "returned", !.prev = store[t].status,
                     !.ret = store[t].status]

\* mutant: the auto-transition writes IN_PROGRESS with the assignee
StoreAfterAssign_Direct(store, t, u) ==
    IF store[t].status = TODO
    THEN SetStatus(SetAssignee(store, t, u), t, IN_PROGRESS)
    ELSE SetAssignee(store, t, u)

\* the store after assignTask lines 110-113
StoreAfterAssign(store, t, u) == SetAssignee(store, t, u)

\* assignTask(taskId, assigneeId, assignedBy) is invoked with a user id
StartAssign(c, t, u) ==
    /\ calls[c].pc = "idle"
    /\ ops < MaxOps
    /\ ops' = ops + 1
    /\ LET rec == [IdleCall EXCEPT !.op = "assignTask", !.task = t, !.assignee = u,
                                   !.actor = u,
                                   !.previousAssignee = tasks[t].assignedTo]
       IN  IF ~tasks[t].exists
           THEN /\ calls' = [calls EXCEPT ![c] =
                                [rec EXCEPT !.pc = "failed", !.err = NOT_FOUND]]
                /\ UNCHANGED tasks
           ELSE IF u \notin Users
           THEN /\ calls' = [calls EXCEPT ![c] =
                                [rec EXCEPT !.pc = "failed", !.err = ASSIGNEE_NOT_FOUND]]
                /\ UNCHANGED tasks
           ELSE IF HasPlankaUserId[u]
           THEN /\ calls' = [calls EXCEPT ![c] =
                                [rec EXCEPT !.pc = "member",
                                            !.api = << "addCardMember" >>]]
                /\ UNCHANGED tasks
           ELSE /\ calls' = [calls EXCEPT ![c] = PersistAssignee(rec, tasks, t, u)]
                /\ tasks' = StoreAfterAssign(tasks, t, u)
    /\ UNCHANGED << reminders, board, cardList, now, outbox, sweeps, ticks, unreachable, digestVars, schedVars, httpVars, jobVars >>

\* addCardMember resolves
MemberAdded(c) ==
    /\ calls[c].pc = "member"
    /\ calls' = [calls EXCEPT ![c] =
                    PersistAssignee(calls[c], tasks, calls[c].task, calls[c].assignee)]
    /\ tasks' = StoreAfterAssign(tasks, calls[c].task, calls[c].assignee)
    /\ UNCHANGED << reminders, board, cardList, ops, now, outbox, sweeps, ticks, unreachable, digestVars, schedVars, httpVars, jobVars >>

\* ------------------------------------------------------- the engine alone
TypeOK ==
    /\ \A t \in TaskIds : tasks[t].status \in TaskStatus
    /\ ops \in 0..MaxOps

InitStore ==
    /\ ServicesIdle
    /\ reminders = {}
    /\ cardList = [t \in TaskIds |-> None]
    /\ calls = [c \in Calls |-> IdleCall]
    /\ ops = 0
    /\ now = 0
    /\ outbox = << >>
    /\ sweeps = 0
    /\ ticks = 0
    /\ unreachable = {}
    /\ DigestIdle

\* the store holds task t1 in any status, assigned or not; t2 is unknown
Init ==
    /\ InitStore
    /\ board \in Boards
    /\ \E s \in TaskStatus, a \in Users \cup {None} :
          tasks = [t \in TaskIds |->
                      IF t = "t1"
                      THEN [exists |-> TRUE, status |-> s, createdBy |-> CreatorOf[t],
                            assignedTo |-> a, dueDate |-> NoDue]
                      ELSE AbsentTask]

Next ==
    \/ \E c \in Calls, t \in TaskIds, s \in TaskStatus : StartUpdateStatus(c, t, s)
    \/ \E c \in Calls, t \in TaskIds, u \in Users \cup Strangers : StartAssign(c, t, u)
    \/ \E c \in Calls : MemberAdded(c)
    \/ \E c \in Calls : ListsResolved(c)
    \/ \E c \in Calls : BoardMovesCard(c)
    \/ \E c \in Calls : PersistStatus(c)
    \/ \E c \in Calls : BoardCallFails(c)
    \/ \E c \in Calls : Finish(c)

Spec == Init /\ [][Next]_vars

\* ------------------------------------------------------------ time and text
\* Timestamps are stored as text and compared as text by SQLite.
\*   Date.toISOString()  "YYYY-MM-DDTHH:MM:SS.sssZ"  (tasks.due_date, query bounds)
\*   CURRENT_TIMESTAMP   "YYYY-MM-DD HH:MM:SS"       (SQLite side, reminders.sent_at)
\* A text is represented by << date, separator, time of day >>, the separator
\* ordered as its character is: " " (0) before "T" (1).
toISOString(h) == << h \div 24, 1, h % 24 >>
CURRENT_TIMESTAMP(h) == << h \div 24, 0, h % 24 >>

\* memcmp order on these texts
TextLess(a, b) ==
    \/ a[1] < b[1]
    \/ a[1] = b[1] /\ a[2] < b[2]
    \/ a[1] = b[1] /\ a[2] = b[2] /\ a[3] < b[3]

TextLeq(a, b) == a = b \/ TextLess(a, b)

\* new Date("YYYY-MM-DD HH:MM:SS"): the text is read as local time, so a
\* UTC text written by SQLite comes back `tz` hours early
ParseLocal(h, tz) == h - tz

\* ------------------------------------------------------- reminders: config
\* REMINDER_WINDOWS, in the order Object.entries yields its keys
REMINDER_WINDOWS ==
    << [type |-> "FIRST", hours |-> 24],
       [type |-> "SECOND", hours |-> 6],
       [type |-> "THIRD", hours |-> 2] >>

\* CHECK(type IN ('24h', '6h', '2h')) of the reminders table
ReminderTypeCheck == {"24h", "6h", "2h"}

\* orders SQLite may return rows of equal sort key in
TieBreaks == { << "t1", "t2" >>, << "t2", "t1" >> }

\* UTC offsets of the server's local time zone, hours
TzOffsets == {0, 5}

Rank(tb, t) == CHOOSE i \in 1..Len(tb) : tb[i] = t

\* ------------------------------------------------------- tasksRepo queries
\* WHERE due_date <= :deadline AND due_date >= CURRENT_TIMESTAMP AND status != 'done'
\* (a NULL due_date satisfies no comparison)
InUpcoming(row, clock, hoursAhead) ==
    /\ row.exists
    /\ row.dueDate # NoDue
    /\ TextLeq(toISOString(row.dueDate), toISOString(clock + hoursAhead))
    /\ TextLeq(CURRENT_TIMESTAMP(clock), toISOString(row.dueDate))
    /\ row.status # DONE

\* mutant: the overdue query without its status filter
InOverdue_AnyStatus(row, clock) ==
    /\ row.exists
    /\ row.dueDate # NoDue
    /\ TextLess(toISOString(row.dueDate), CURRENT_TIMESTAMP(clock))

\* mutant: the overdue query taking a NULL due date for the oldest one
InOverdue_NullFirst(row, clock) ==
    /\ row.exists
    /\ (row.dueDate = NoDue
          \/ TextLess(toISOString(row.dueDate), CURRENT_TIMESTAMP(clock)))
    /\ row.status # DONE

\* WHERE due_date < CURRENT_TIMESTAMP AND status != 'done'
InOverdue(row, clock) ==
    /\ row.exists
    /\ row.dueDate # NoDue
    /\ TextLess(toISOString(row.dueDate), CURRENT_TIMESTAMP(clock))
    /\ row.status # DONE

\* the members of `set` as a sequence, by due date (ascending, or descending
\* when desc), rows of equal due date in the order tb
RECURSIVE OrderByDue(_, _, _, _)
OrderByDue(store, set, desc, tb) ==
    IF set = {} THEN << >>
    ELSE LET before(a, b) ==
                 \/ (~desc /\ store[a].dueDate < store[b].dueDate)
                 \/ (desc /\ store[a].dueDate > store[b].dueDate)
                 \/ (store[a].dueDate = store[b].dueDate /\ Rank(tb, a) < Rank(tb, b))
             first == CHOOSE a \in set : \A b \in set \ {a} : before(a, b)
         IN  << first >> \o OrderByDue(store, set \ {first}, desc, tb)

getUpcomingDeadlines(store, clock, hoursAhead, tb) ==
    OrderByDue(store, {t \in TaskIds : InUpcoming(store[t], clock, hoursAhead)}, FALSE, tb)

getOverdueTasks(store, clock, tb) ==
    OrderByDue(store, {t \in TaskIds : InOverdue(store[t], clock)}, TRUE, tb)

\* ------------------------------------------------------- reminders table
\* INSERT of one row: rejected by the CHECK on type (ok = FALSE, the statement
\* throws); a row with the same (task_id, user_id, type) is replaced
\* (ON CONFLICT DO UPDATE SET sent_at / INSERT OR REPLACE)
InsertReminder(led, row) ==
    IF row.type \notin ReminderTypeCheck
    THEN [ok |-> FALSE, led |-> led]
    ELSE [ok |-> TRUE,
          led |-> {r \in led : ~(r.task = row.task /\ r.user = row.user /\ r.type = row.type)}
                      \cup {row}]

\* SELECT sent_at FROM reminders WHERE task_id = .. AND type = .. AND sent_at IS NOT NULL
wasReminderSent(led, t, type) ==
    \E r \in led : r.task = t /\ r.type = type /\ r.sentAt # NoSentAt

\* INSERT .. SELECT t.id, t.created_by, :type, CURRENT_TIMESTAMP
markReminderSent(led, store, t, type, clock) ==
    InsertReminder(led, [task |-> t, user |-> store[t].createdBy,
                         type |-> type, sentAt |-> clock])

\* SELECT MAX(sent_at) .. type = 'overdue', then new Date(text); None for null
getLastOverdueReminder(led, t, tz) ==
    LET rows == {r \in led : r.task = t /\ r.type = "overdue" /\ r.sentAt # NoSentAt}
    IN  IF rows = {} THEN None
        ELSE ParseLocal((CHOOSE r \in rows : \A q \in rows : q.sentAt <= r.sentAt).sentAt, tz)

markOverdueReminderSent(led, store, t, clock) ==
    InsertReminder(led, [task |-> t, user |-> store[t].createdBy,
                         type |-> "overdue", sentAt |-> clock])

\* ------------------------------------------------------- sendReminders
\* new Set([createdBy, assigneeId]) in insertion order
Recipients(row) ==
    IF row.assignedTo = None \/ row.assignedTo = row.createdBy
    THEN << row.createdBy >>
    ELSE << row.createdBy, row.assignedTo >>

\* sendReminderToUser / sendOverdueReminderToUser for each recipient in turn:
\* no request for an id without a users row; a rejected sendMessage is
\* caught and logged.  Each request is appended to the outbox.
RECURSIVE SendAll(_, _, _, _, _, _, _, _)
SendAll(out, rcpts, k, t, type, hours, clock, lost) ==
    IF k > Len(rcpts) THEN out
    ELSE SendAll(IF rcpts[k] \in Users
                 THEN Append(out, [task |-> t, to |-> rcpts[k], type |-> type,
                                   hours |-> hours, at |-> clock,
                                   ok |-> rcpts[k] \notin lost])
                 ELSE out,
                 rcpts, k + 1, t, type, hours, clock, lost)

\* The sweep's running state: the ledger, the outbox, and whether an
\* exception has reached the catch of sendReminders (the run is over).
\* Body of the inner loop of the window pass (lines 38-65) for task t, window w
RemindTask(st, store, t, w, clock, lost) ==
    IF st.dead THEN st
    ELSE IF store[t].status = DONE THEN st
    ELSE IF wasReminderSent(st.led, t, w.type) THEN st
    ELSE LET ins == markReminderSent(st.led, store, t, w.type, clock)
         IN  [led |-> ins.led,
              out |-> SendAll(st.out, Recipients(store[t]), 1, t, w.type, w.hours,
                              clock, lost),
              dead |-> ~ins.ok]

\* Body of the loop of the overdue pass (lines 71-91) for task t
RemindOverdue(st, store, t, clock, lost, tz) ==
    IF st.dead THEN st
    ELSE LET last == getLastOverdueReminder(st.led, t, tz)
         IN  IF last # None /\ ~(clock - last > 24)
             THEN st
             ELSE LET ins == markOverdueReminderSent(st.led, store, t, clock)
                  IN  [led |-> ins.led,
                       out |-> SendAll(st.out, Recipients(store[t]), 1, t, "overdue", 0,
                                       clock, lost),
                       dead |-> ~ins.ok]

RECURSIVE WindowTasks(_, _, _, _, _, _, _)
WindowTasks(st, store, ts, k, w, clock, lost) ==
    IF k > Len(ts) THEN st
    ELSE WindowTasks(RemindTask(st, store, ts[k], w, clock, lost),
                     store, ts, k + 1, w, clock, lost)

RECURSIVE WindowPass(_, _, _, _, _, _)
WindowPass(st, store, i, clock, lost, tb) ==
    IF i > Len(REMINDER_WINDOWS) THEN st
    ELSE WindowPass(WindowTasks(st, store,
                                getUpcomingDeadlines(store, clock,
                                                     REMINDER_WINDOWS[i].hours, tb),
                                1, REMINDER_WINDOWS[i], clock, lost),
                    store, i + 1, clock, lost, tb)

RECURSIVE OverduePass(_, _, _, _, _, _, _)
OverduePass(st, store, ts, k, clock, lost, tz) ==
    IF k > Len(ts) THEN st
    ELSE OverduePass(RemindOverdue(st, store, ts[k], clock, lost, tz),
                     store, ts, k + 1, clock, lost, tz)

\* sendReminders(): the window pass, then the overdue pass, inside one try
sendReminders(store, led, out, clock, lost, tb, tz) ==
    LET afterWindows ==
            WindowPass([led |-> led, out |-> out, dead |-> FALSE],
                       store, 1, clock, lost, tb)
    IN  IF afterWindows.dead THEN afterWindows
        ELSE OverduePass(afterWindows, store, getOverdueTasks(store, clock, tb),
                         1, clock, lost, tz)

\* mutant: a run that also closes the tasks it found overdue
Sweep_ClosingOverdue ==
    /\ sweeps < MaxSweeps
    /\ sweeps' = sweeps + 1
    /\ \E tb \in TieBreaks, tz \in TzOffsets :
          LET r == sendReminders(tasks, reminders, outbox, now, unreachable, tb, tz)
          IN  /\ reminders' = r.led
              /\ outbox' = r.out
    /\ tasks' = [t \in TaskIds |->
                    IF InOverdue(tasks[t], now)
                    THEN [tasks[t] EXCEPT !.status = DONE]
                    ELSE tasks[t]]
    /\ UNCHANGED << board, cardList, calls, ops, now, ticks, unreachable, digestVars, schedVars, httpVars, jobVars >>

\* one firing of the reminders job
Sweep ==
    /\ sweeps < MaxSweeps
    /\ sweeps' = sweeps + 1
    /\ \E tb \in TieBreaks, tz \in TzOffsets :
          LET r == sendReminders(tasks, reminders, outbox, now, unreachable, tb, tz)
          IN  /\ reminders' = r.led
              /\ outbox' = r.out
    /\ UNCHANGED << tasks, board, cardList, calls, ops, now, ticks, unreachable, digestVars, schedVars, httpVars, jobVars >>

\* hours by which the clock moves between two observations
TickSteps == {1, 23}

Tick(d) ==
    /\ ticks < MaxTicks
    /\ ticks' = ticks + 1
    /\ now' = now + d
    /\ UNCHANGED << tasks, reminders, board, cardList, calls, ops, outbox, sweeps,
                    unreachable, digestVars, schedVars, httpVars, jobVars >>

\* the hour the observation starts: 10:00 on the third day
StartOfSweeps == 2 * 24 + 10

\* due dates of stored tasks: two days ago, in 5 hours, in 22 hours, in 25
\* hours (outside every window at the start, inside the 24-hour one an
\* hour later)
DueChoices == {10, StartOfSweeps + 5, StartOfSweeps + 22, StartOfSweeps + 25}

\* the store holds t1 in any status, with any assignee and due date, and
\* possibly a second, unassigned open task that is overdue or due in 5
\* hours; one user may be unreachable
InitSweep ==
    /\ ServicesIdle
    /\ reminders = {}
    /\ cardList = [t \in TaskIds |-> None]
    /\ calls = [c \in Calls |-> IdleCall]
    /\ ops = 0
    /\ outbox = << >>
    /\ sweeps = 0
    /\ ticks = 0
    /\ board = Kanban
    /\ now = StartOfSweeps
    /\ unreachable \in {{}, {"A"}, {"B"}}
    /\ DigestIdle
    /\ \E s \in TaskStatus, a \in Users \cup {None}, d1 \in DueChoices \cup {NoDue},
          second \in BOOLEAN, d2 \in {10, StartOfSweeps + 5} :
          tasks = [t \in TaskIds |->
                      IF t = "t1"
                      THEN [exists |-> TRUE, status |-> s, createdBy |-> CreatorOf[t],
                            assignedTo |-> a, dueDate |-> d1]
                      ELSE IF second
                      THEN [exists |-> TRUE, status |-> TODO, createdBy |-> CreatorOf[t],
                            assignedTo |-> None, dueDate |-> d2]
                      ELSE AbsentTask]

NextSweep ==
    \/ Sweep
    \/ \E d \in TickSteps : Tick(d)

SweepSpec == InitSweep /\ [][NextSweep]_vars

\* ------------------------------------------- the job next to the engine
\* the store holds t1 alone, overdue or due in 5 hours, in any status;
\* moves of t1 to review or to done are requested while the reminders job
\* fires
InitLifecycle ==
    /\ ServicesIdle
    /\ reminders = {}
    /\ cardList = [t \in TaskIds |-> None]
    /\ calls = [c \in Calls |-> IdleCall]
    /\ ops = 0
    /\ outbox = << >>
    /\ sweeps = 0
    /\ ticks = 0
    /\ board = Kanban
    /\ now = StartOfSweeps
    /\ unreachable = {}
    /\ DigestIdle
    /\ \E s \in TaskStatus, a \in {None, "A"}, d1 \in {10, StartOfSweeps + 5} :
          tasks = [t \in TaskIds |->
                      IF t = "t1"
                      THEN [exists |-> TRUE, status |-> s, createdBy |-> CreatorOf[t],
                            assignedTo |-> a, dueDate |-> d1]
                      ELSE AbsentTask]

NextLifecycle ==
    \/ Sweep
    \/ Tick(23)
    \/ \E s \in {IN_REVIEW, DONE} : StartUpdateStatus("c1", "t1", s)
    \/ ListsResolved("c1")
    \/ BoardMovesCard("c1")
    \/ PersistStatus("c1")
    \/ BoardCallFails("c1")
    \/ Finish("c1")

LifecycleSpec == InitLifecycle /\ [][NextLifecycle]_vars

\* ------------------------------------------------------- settings, digest
\* users.role
UserRoles == {"owner", "admin", "employee"}

\* values of settings.digest_hour in stored rows
DigestHours == {9, 18}

\* hours passed to setDigestHour
HourInputs == {9, 18, 24}

\* the two digest jobs
DigestKinds == {"morning", "evening"}

\* ORDER BY created_at DESC over the users table
UsersByCreation == << "B", "A" >>

\* Boolean(column): 0 is false, any other number true
Boolean(x) == x # 0

\* mutant: the digest's reader with no default for the hour
getUserSettings_NoHourDefault(store, u) ==
    IF ~store[u].exists
    THEN [digestEnabled |-> TRUE, digestHour |-> 0, notificationsEnabled |-> TRUE]
    ELSE [digestEnabled |-> Boolean(store[u].digestEnabled),
          digestHour |-> store[u].digestHour,
          notificationsEnabled |-> Boolean(store[u].notificationsEnabled)]

\* getUserSettings of the digest job: the row, or the defaults
getUserSettings(store, u) ==
    IF ~store[u].exists
    THEN [digestEnabled |-> TRUE, digestHour |-> 9, notificationsEnabled |-> TRUE]
    ELSE [digestEnabled |-> Boolean(store[u].digestEnabled),
          digestHour |-> store[u].digestHour,
          notificationsEnabled |-> Boolean(store[u].notificationsEnabled)]

mapRowToSettings(u, row) ==
    [userId |-> u,
     digestHour |-> row.digestHour,
     digestEnabled |-> Boolean(row.digestEnabled),
     notificationsEnabled |-> Boolean(row.notificationsEnabled)]

\* settingsRepo.getOrDefault: get(userId), or the defaults (timestamps left out)
getOrDefault(store, u) ==
    IF store[u].exists
    THEN mapRowToSettings(u, store[u])
    ELSE [userId |-> u, digestHour |-> 9, digestEnabled |-> TRUE,
          notificationsEnabled |-> TRUE]

\* settingsRepo.create: INSERT .. VALUES (?, 9, 1, 1); an existing row stays
\* (SQLITE_CONSTRAINT_UNIQUE is caught)
create(store, u) ==
    IF store[u].exists THEN store
    ELSE [store EXCEPT ![u] = [exists |-> TRUE, digestHour |-> 9, digestEnabled |-> 1,
                               notificationsEnabled |-> 1]]

\* settingsRepo.update for one column: creates the row when missing
update(store, u, column, value) ==
    [create(store, u) EXCEPT ![u][column] = value]

\* settingsRepo.setDigestEnabled
SetDigestEnabled(u, enabled) ==
    /\ settings' = update(settings, u, "digestEnabled", IF enabled THEN 1 ELSE 0)
    /\ UNCHANGED << tasks, reminders, board, cardList, calls, ops, now, outbox, sweeps,
                    ticks, unreachable, schedVars, httpVars, jobVars, roles, digestRun, digests, digestRuns, lastRead >>

\* settingsRepo.setDigestHour: throws for an hour outside 0..23
SetDigestHour(u, hour) ==
    /\ settings' = IF hour < 0 \/ hour > 23 THEN settings
                   ELSE update(settings, u, "digestHour", hour)
    /\ UNCHANGED << tasks, reminders, board, cardList, calls, ops, now, outbox, sweeps,
                    ticks, unreachable, schedVars, httpVars, jobVars, roles, digestRun, digests, digestRuns, lastRead >>

\* a read of the settings of u by each of the two readers
ReadSettings(u) ==
    /\ lastRead' = [user |-> u,
                    digest |-> getUserSettings(settings, u),
                    repo |-> getOrDefault(settings, u)]
    /\ UNCHANGED << tasks, reminders, board, cardList, calls, ops, now, outbox, sweeps,
                    ticks, unreachable, schedVars, httpVars, jobVars, settings, roles, digestRun, digests, digestRuns >>

\* usersRepo.getAll(role)
getAll(rolesOf, role) == SelectSeq(UsersByCreation, LAMBDA u : rolesOf[u] = role)

\* mutant: the digest goes to owners only
digestRecipients_OwnersOnly(rolesOf) == getAll(rolesOf, "owner")

\* recipients = [...owners, ...admins]
digestRecipients(rolesOf) == getAll(rolesOf, "owner") \o getAll(rolesOf, "admin")

\* sendDailyDigest(kind), up to the loop
StartDigest(kind) ==
    /\ ~digestRun.active
    /\ digestRuns < MaxDigestRuns
    /\ digestRuns' = digestRuns + 1
    /\ digestRun' = [active |-> TRUE, kind |-> kind, queue |-> digestRecipients(roles)]
    /\ UNCHANGED << tasks, reminders, board, cardList, calls, ops, now, outbox, sweeps,
                    ticks, unreachable, schedVars, httpVars, jobVars, settings, roles, digests, lastRead >>

\* the message of one loop iteration: none when the digest is switched off
\* or, in the morning, when the hour is not 9; a rejected sendMessage is
\* caught and logged by sendMorningDigest / sendEveningDigest (ok = FALSE)
DigestFor(store, kind, run, u, lost) ==
    LET s == getUserSettings(store, u)
    IN  IF ~s.digestEnabled THEN << >>
        ELSE IF kind = "morning" /\ s.digestHour # 9 THEN << >>
        ELSE << [to |-> u, kind |-> kind, run |-> run, ok |-> u \notin lost] >>

\* mutant: an iteration that marks the user's tasks as reminded
DigestStep_MarkingLedger ==
    /\ digestRun.active
    /\ digestRun.queue # << >>
    /\ digests' = digests \o DigestFor(settings, digestRun.kind, digestRuns,
                                       Head(digestRun.queue), unreachable)
    /\ digestRun' = [digestRun EXCEPT !.queue = Tail(@)]
    /\ reminders' = reminders \cup
          { [task |-> t, user |-> Head(digestRun.queue), type |-> "24h", sentAt |-> now] :
               t \in {x \in TaskIds : tasks[x].exists} }
    /\ UNCHANGED << tasks, board, cardList, calls, ops, now, outbox, sweeps,
                    ticks, unreachable, schedVars, httpVars, jobVars, settings, roles, digestRuns, lastRead >>

\* mutant: a rejected send ends the batch
DigestStep_AbortingOnFailure ==
    /\ digestRun.active
    /\ digestRun.queue # << >>
    /\ digests' = digests \o DigestFor(settings, digestRun.kind, digestRuns,
                                       Head(digestRun.queue), unreachable)
    /\ digestRun' = [digestRun EXCEPT !.queue =
                        IF /\ Head(digestRun.queue) \in unreachable
                           /\ DigestFor(settings, digestRun.kind, digestRuns,
                                        Head(digestRun.queue), unreachable) # << >>
                        THEN << >>
                        ELSE Tail(@)]
    /\ UNCHANGED << tasks, reminders, board, cardList, calls, ops, now, outbox, sweeps,
                    ticks, unreachable, schedVars, httpVars, jobVars, settings, roles, digestRuns, lastRead >>

\* mutant: an iteration that does not look at digestEnabled
DigestStep_IgnoringSwitch ==
    /\ digestRun.active
    /\ digestRun.queue # << >>
    /\ digests' = Append(digests, [to |-> Head(digestRun.queue), kind |-> digestRun.kind,
                                   run |-> digestRuns,
                                   ok |-> Head(digestRun.queue) \notin unreachable])
    /\ digestRun' = [digestRun EXCEPT !.queue = Tail(@)]
    /\ UNCHANGED << tasks, reminders, board, cardList, calls, ops, now, outbox, sweeps,
                    ticks, unreachable, schedVars, httpVars, jobVars, settings, roles, digestRuns, lastRead >>

\* one iteration of the loop of sendDailyDigest: the settings are read and
\* the message is handed to Telegram before the next suspension
DigestStep ==
    /\ digestRun.active
    /\ digestRun.queue # << >>
    /\ digests' = digests \o DigestFor(settings, digestRun.kind, digestRuns,
                                       Head(digestRun.queue), unreachable)
    /\ digestRun' = [digestRun EXCEPT !.queue = Tail(@)]
    /\ UNCHANGED << tasks, reminders, board, cardList, calls, ops, now, outbox, sweeps,
                    ticks, unreachable, schedVars, httpVars, jobVars, settings, roles, digestRuns, lastRead >>

\* the loop is over
FinishDigest ==
    /\ digestRun.active
    /\ digestRun.queue = << >>
    /\ digestRun' = NoDigestRun
    /\ UNCHANGED << tasks, reminders, board, cardList, calls, ops, now, outbox, sweeps,
                    ticks, unreachable, schedVars, httpVars, jobVars, settings, roles, digests, digestRuns, lastRead >>

\* stored settings rows
SettingsRows ==
    [exists : {TRUE}, digestHour : DigestHours, digestEnabled : {0, 1},
     notificationsEnabled : {0, 1}]

\* everything but the settings and the users at rest
InitRest ==
    /\ tasks = [t \in TaskIds |-> AbsentTask]
    /\ reminders = {}
    /\ board = Kanban
    /\ cardList = [t \in TaskIds |-> None]
    /\ calls = [c \in Calls |-> IdleCall]
    /\ ops = 0
    /\ now = 0
    /\ outbox = << >>
    /\ sweeps = 0
    /\ ticks = 0
    /\ unreachable = {}
    /\ digestRun = NoDigestRun
    /\ digests = << >>
    /\ digestRuns = 0
    /\ lastRead = NoRead

\* users of any role, each with a settings row (notifications on) or none
InitDigest ==
    /\ ServicesIdle
    /\ InitRest
    /\ roles \in [Users -> UserRoles]
    /\ settings \in [Users -> {NoSettingsRow}
                                  \cup {r \in SettingsRows : r.notificationsEnabled = 1}]

NextDigest ==
    \/ \E kind \in DigestKinds : StartDigest(kind)
    \/ DigestStep
    \/ FinishDigest
    \/ \E u \in Users, enabled \in BOOLEAN : SetDigestEnabled(u, enabled)
    \/ \E u \in Users, hour \in HourInputs : SetDigestHour(u, hour)

DigestSpec == InitDigest /\ [][NextDigest]_vars

\* users with any settings row or none, read and changed
InitSettings ==
    /\ ServicesIdle
    /\ InitRest
    /\ roles = [u \in Users |-> "employee"]
    /\ settings \in [Users -> {NoSettingsRow} \cup SettingsRows]

NextSettings ==
    \/ \E u \in Users : ReadSettings(u)
    \/ \E u \in Users, enabled \in BOOLEAN : SetDigestEnabled(u, enabled)
    \/ \E u \in Users, hour \in HourInputs : SetDigestHour(u, hour)

SettingsSpec == InitSettings /\ [][NextSettings]_vars

\* ------------------------------------- the digest next to the reminders job
\* settings rows with the digest switched on and notifications on
EnabledRows ==
    {r \in SettingsRows : r.digestEnabled = 1 /\ r.notificationsEnabled = 1}

\* owner A and admin B, each with default or stored settings, one of them
\* possibly unreachable; the store holds t1 alone, created by B, open or
\* done, overdue or due in 5 hours
InitChannels ==
    /\ ServicesIdle
    /\ reminders = {}
    /\ board = Kanban
    /\ cardList = [t \in TaskIds |-> None]
    /\ calls = [c \in Calls |-> IdleCall]
    /\ ops = 0
    /\ now = StartOfSweeps
    /\ outbox = << >>
    /\ sweeps = 0
    /\ ticks = 0
    /\ unreachable \in {{}, {"A"}, {"B"}}
    /\ digestRun = NoDigestRun
    /\ digests = << >>
    /\ digestRuns = 0
    /\ lastRead = NoRead
    /\ roles = [u \in Users |-> IF u = "A" THEN "owner" ELSE "admin"]
    /\ settings \in [Users -> {NoSettingsRow} \cup EnabledRows]
    /\ \E s \in {TODO, DONE}, a \in {None, "A"}, d1 \in {10, StartOfSweeps + 5} :
          tasks = [t \in TaskIds |->
                      IF t = "t1"
                      THEN [exists |-> TRUE, status |-> s, createdBy |-> CreatorOf[t],
                            assignedTo |-> a, dueDate |-> d1]
                      ELSE AbsentTask]

NextChannels ==
    \/ Sweep
    \/ \E kind \in DigestKinds : StartDigest(kind)
    \/ DigestStep
    \/ FinishDigest

ChannelsSpec == InitChannels /\ [][NextChannels]_vars

\* ------------------------------------------------------------ scheduler
\* names restartJob is called with: the registered ones and a foreign one
RestartNames == JobNames \cup {"sync"}

\* the cron task the map holds for name n (gen 0: no entry)
Registered(n) == scheduledJobs[n] # 0

\* task.stop() / task.start() on the task (n, g)
SetScheduled(tasksOf, n, g, on) ==
    { IF t.name = n /\ t.gen = g THEN [t EXCEPT !.scheduled = on] ELSE t : t \in tasksOf }

\* the scheduled triggers of job n
Triggers(n) == { t \in cronTasks : t.name = n /\ t.scheduled }

\* setupScheduledJobs: cron.schedule creates and starts a new task for each
\* job, scheduledJobs.set replaces the map entry; the task an entry held
\* before is neither stopped nor kept anywhere
setupScheduledJobs ==
    /\ setups < MaxSetups
    /\ setups' = setups + 1
    /\ cronTasks' = cronTasks \cup
                       { [name |-> n, gen |-> setups + 1, scheduled |-> TRUE] : n \in JobNames }
    /\ scheduledJobs' = [n \in JobNames |-> setups + 1]
    /\ lastOp' = [op |-> "setup", name |-> None, started |-> 0]
    /\ UNCHANGED << inflight, errorLog, crashed, hasRunning, lastStatus, fires >>
    /\ UNCHANGED << storeVars, digestVars, httpVars, jobVars >>

\* stopScheduledJobs: stop() on every task of the map, then clear()
stopScheduledJobs ==
    /\ cronTasks' = { IF Registered(t.name) /\ t.gen = scheduledJobs[t.name]
                        THEN [t EXCEPT !.scheduled = FALSE]
                        ELSE t : t \in cronTasks }
    /\ scheduledJobs' = [n \in JobNames |-> 0]
    /\ lastOp' = [op |-> "stop", name |-> None, started |-> 0]
    /\ UNCHANGED << inflight, errorLog, crashed, hasRunning, lastStatus, setups, fires >>
    /\ UNCHANGED << storeVars, digestVars, httpVars, jobVars >>

\* mutant: restartJob that stops the job and leaves it stopped
restartJob_StopOnly(jobName) ==
    /\ cronTasks' = IF jobName \in JobNames /\ Registered(jobName)
                     THEN SetScheduled(cronTasks, jobName, scheduledJobs[jobName], FALSE)
                     ELSE cronTasks
    /\ lastOp' = [op |-> "restart", name |-> jobName, started |-> 0]
    /\ UNCHANGED << scheduledJobs, inflight, errorLog, crashed, hasRunning, lastStatus,
                    setups, fires >>
    /\ UNCHANGED << storeVars, digestVars, httpVars, jobVars >>

\* restartJob(jobName): job.stop(); job.start() on the map's task, or a
\* warning when the map has no such name
restartJob(jobName) ==
    /\ cronTasks' = IF jobName \in JobNames /\ Registered(jobName)
                     THEN SetScheduled(SetScheduled(cronTasks, jobName,
                                                    scheduledJobs[jobName], FALSE),
                                       jobName, scheduledJobs[jobName], TRUE)
                     ELSE cronTasks
    /\ lastOp' = [op |-> "restart", name |-> jobName, started |-> 0]
    /\ UNCHANGED << scheduledJobs, inflight, errorLog, crashed, hasRunning, lastStatus,
                    setups, fires >>
    /\ UNCHANGED << storeVars, digestVars, httpVars, jobVars >>

\* job.running || false, for the task the map holds for n
RunningOrFalse(n) ==
    IF hasRunning
    THEN \E t \in cronTasks : t.name = n /\ t.gen = scheduledJobs[n] /\ t.scheduled
    ELSE FALSE

\* getJobsStatus: one entry per name of the map
getJobsStatus ==
    /\ lastStatus' = [n \in JobNames |->
                         IF ~Registered(n) THEN "absent"
                         ELSE IF RunningOrFalse(n) THEN "true" ELSE "false"]
    /\ lastOp' = [op |-> "status", name |-> None, started |-> 0]
    /\ UNCHANGED << cronTasks, scheduledJobs, inflight, errorLog, crashed, hasRunning,
                    setups, fires >>
    /\ UNCHANGED << storeVars, digestVars, httpVars, jobVars >>

\* a firing time of job n: every scheduled trigger of n invokes its callback,
\* whether or not an earlier invocation has returned
CronTime(n) ==
    /\ fires < MaxFires
    /\ Triggers(n) # {}
    /\ fires' = fires + 1
    /\ inflight' = [inflight EXCEPT ![n] = @ + Cardinality(Triggers(n))]
    /\ lastOp' = [op |-> "fire", name |-> n, started |-> Cardinality(Triggers(n))]
    /\ UNCHANGED << cronTasks, scheduledJobs, errorLog, crashed, hasRunning, lastStatus,
                    setups >>
    /\ UNCHANGED << storeVars, digestVars, httpVars, jobVars >>

\* mutant: a callback without its try/catch
Return_Unguarded(n, threw) ==
    /\ inflight[n] > 0
    /\ inflight' = [inflight EXCEPT ![n] = @ - 1]
    /\ crashed' = (crashed \/ threw)
    /\ lastOp' = [op |-> IF threw THEN "threw" ELSE "returned", name |-> n, started |-> 0]
    /\ UNCHANGED << cronTasks, scheduledJobs, errorLog, hasRunning, lastStatus, setups,
                    fires >>
    /\ UNCHANGED << storeVars, digestVars, httpVars, jobVars >>

\* an invocation of job n ends: the awaited job function returned, or it
\* rejected and the catch of the callback logged the error
Return(n, threw) ==
    /\ inflight[n] > 0
    /\ inflight' = [inflight EXCEPT ![n] = @ - 1]
    /\ errorLog' = IF threw THEN errorLog + 1 ELSE errorLog
    /\ lastOp' = [op |-> IF threw THEN "threw" ELSE "returned", name |-> n, started |-> 0]
    /\ UNCHANGED << cronTasks, scheduledJobs, crashed, hasRunning, lastStatus, setups,
                    fires >>
    /\ UNCHANGED << storeVars, digestVars, httpVars, jobVars >>

\* the process before setupScheduledJobs; the cron library's task objects
\* have a `running` property or not
InitScheduler ==
    /\ InitRest
    /\ roles = [u \in Users |-> "employee"]
    /\ settings = [u \in Users |-> NoSettingsRow]
    /\ cronTasks = {}
    /\ scheduledJobs = [n \in JobNames |-> 0]
    /\ inflight = [n \in JobNames |-> 0]
    /\ errorLog = 0
    /\ crashed = FALSE
    /\ hasRunning \in BOOLEAN
    /\ lastStatus = [n \in JobNames |-> "absent"]
    /\ lastOp = NoSchedOp
    /\ setups = 0
    /\ fires = 0
    /\ http = IdleRequest
    /\ requests = 0
    /\ token = TRUE
    /\ cleanupLog = << >>
    /\ bulk = NoBulk

NextScheduler ==
    \/ setupScheduledJobs
    \/ stopScheduledJobs
    \/ \E n \in RestartNames : restartJob(n)
    \/ getJobsStatus
    \/ \E n \in JobNames : CronTime(n)
    \/ \E n \in JobNames, threw \in BOOLEAN : Return(n, threw)

SchedulerSpec == InitScheduler /\ [][NextScheduler]_vars

\* ------------------------------------------------------- claims: engine
\* the adjacency table as the design states it
AdjacencyTable ==
    { <<TODO, IN_PROGRESS>>, <<TODO, DONE>>,
      <<IN_PROGRESS, TODO>>, <<IN_PROGRESS, IN_REVIEW>>, <<IN_PROGRESS, DONE>>,
      <<IN_REVIEW, IN_PROGRESS>>, <<IN_REVIEW, DONE>>,
      <<DONE, TODO>>, <<DONE, IN_PROGRESS>> }

\* call c is invoked in this step as use case `op`
Invoked(c, op) ==
    /\ calls[c].pc = "idle"
    /\ calls'[c].pc # "idle"
    /\ calls'[c].op = op

\* call c of use case `op` returns in this step after an await
ReturnsNow(c, op) ==
    /\ calls[c].pc \notin {"idle", "returned"}
    /\ calls'[c].pc = "returned"
    /\ calls'[c].op = op

\* C2: updateTaskStatus on a task in s1 with a target s2 # s1 for which
\* (s1, s2) is not in the adjacency table fails with
\* INVALID_STATUS_TRANSITION, has made no board call, and leaves the tasks
\* table (so the persisted status s1) and the board untouched.
C2_InvalidPairRejected ==
    [][\A c \in Calls :
          (/\ Invoked(c, "updateTaskStatus")
           /\ tasks[calls'[c].task].exists
           /\ tasks[calls'[c].task].status # calls'[c].target
           /\ <<tasks[calls'[c].task].status, calls'[c].target>> \notin AdjacencyTable)
          => /\ calls'[c].pc = "failed"
             /\ calls'[c].err = INVALID_STATUS_TRANSITION
             /\ calls'[c].api = << >>
             /\ tasks' = tasks
             /\ cardList' = cardList]_vars

C2_Witness ==
    \E c \in Calls :
        /\ calls[c].op = "updateTaskStatus"
        /\ calls[c].pc = "failed"
        /\ calls[c].err = INVALID_STATUS_TRANSITION
        /\ calls[c].prev = TODO
        /\ calls[c].target = IN_REVIEW
        /\ tasks[calls[c].task].status = TODO

\* what C3 says of an updateTaskStatus call that changes the status, with
\* the number of board-client calls it has made left open
C3_Transition(nCalls) ==
    \A c \in Calls :
        /\ (Invoked(c, "updateTaskStatus") /\ tasks[calls'[c].task].exists)
              => calls'[c].prev = tasks[calls'[c].task].status
        /\ (ReturnsNow(c, "updateTaskStatus") /\ calls[c].prev # calls[c].target)
              => /\ <<calls[c].prev, calls[c].target>> \in AdjacencyTable
                 /\ tasks'[calls[c].task].status = calls[c].target
                 /\ calls'[c].ret = calls[c].target
                 /\ calls'[c].prev = calls[c].prev
                 /\ Len(calls'[c].api) = nCalls

\* C3 (as stated): a successful transition s1 -> s2 of the table persists
\* s2, returns previousStatus = s1 and contacts the board API only once.
C3_AsStated == [][C3_Transition(1)]_vars

\* C3 (amended): a successful transition s1 -> s2 of the table persists s2,
\* returns previousStatus = s1 and makes exactly two board-client calls:
\* one getBoardLists followed by one updateCard (the card is moved once).
C3_TwoBoardCalls ==
    [][/\ C3_Transition(2)
       /\ \A c \in Calls :
             (ReturnsNow(c, "updateTaskStatus") /\ calls[c].prev # calls[c].target)
                => calls'[c].api = << "getBoardLists", "updateCard" >>]_vars

C3_Witness ==
    \E c \in Calls :
        /\ calls[c].op = "updateTaskStatus"
        /\ calls[c].pc = "returned"
        /\ calls[c].prev = IN_PROGRESS
        /\ calls[c].target = IN_REVIEW
        /\ tasks[calls[c].task].status = IN_REVIEW
        /\ cardList[calls[c].task] = IN_REVIEW

\* C4: the status of a task is written only by a call whose updateCard has
\* been served by the board and has resolved; when getBoardLists or
\* updateCard fails (or no target list is found) the call ends with
\* PLANKA_ERROR and the tasks table is left as it was.
C4_PersistAfterBoard ==
    [][/\ \A t \in TaskIds :
             tasks'[t].status # tasks[t].status
                => \E c \in Calls :
                      /\ calls[c].task = t
                      /\ calls[c].pc = "moved"
                      /\ calls[c].api[Len(calls[c].api)] = "updateCard"
                      /\ cardList[t] # None
                      /\ calls'[c].pc = "returned"
                      /\ tasks'[t].status = calls[c].target
       /\ \A c \in Calls :
             (calls[c].pc \in {"lists", "card", "moved"} /\ calls'[c].pc = "failed")
                => /\ calls'[c].err = PLANKA_ERROR
                   /\ tasks' = tasks]_vars

C4_Witness ==
    \E c \in Calls :
        /\ calls[c].op = "updateTaskStatus"
        /\ calls[c].pc = "failed"
        /\ calls[c].err = PLANKA_ERROR
        /\ calls[c].api = << "getBoardLists", "updateCard" >>
        /\ tasks[calls[c].task].status = calls[c].prev
        /\ calls[c].prev # calls[c].target

\* C5: updateTaskStatus with a target equal to the task's current status
\* returns at once the task as read (same status), previousStatus equal to
\* that status, with no board call and no write to the tasks table.
C5_SameStatusNoOp ==
    [][\A c \in Calls :
          (/\ Invoked(c, "updateTaskStatus")
           /\ tasks[calls'[c].task].exists
           /\ tasks[calls'[c].task].status = calls'[c].target)
          => /\ calls'[c].pc = "returned"
             /\ calls'[c].prev = calls'[c].target
             /\ calls'[c].ret = calls'[c].target
             /\ calls'[c].api = << >>
             /\ tasks' = tasks
             /\ cardList' = cardList]_vars

C5_Witness ==
    \E c \in Calls :
        /\ calls[c].op = "updateTaskStatus"
        /\ calls[c].pc = "returned"
        /\ calls[c].target = DONE
        /\ calls[c].prev = DONE
        /\ calls[c].api = << >>

\* C6: updateTaskStatus on a task id that is not in the tasks table fails
\* with NOT_FOUND whatever the target, with no board call and no change of
\* the tasks table.
C6_UnknownTaskNotFound ==
    [][\A c \in Calls :
          (Invoked(c, "updateTaskStatus") /\ ~tasks[calls'[c].task].exists)
          => /\ calls'[c].pc = "failed"
             /\ calls'[c].err = NOT_FOUND
             /\ calls'[c].api = << >>
             /\ tasks' = tasks
             /\ cardList' = cardList]_vars

C6_Witness ==
    \E c \in Calls :
        /\ calls[c].op = "updateTaskStatus"
        /\ calls[c].pc = "failed"
        /\ calls[c].err = NOT_FOUND
        /\ ~tasks[calls[c].task].exists
        /\ calls[c].target = IN_REVIEW

\* C7: an assignTask call that writes the assignee never writes the status
\* in that step: for a task in TODO it enters updateTaskStatus towards
\* IN_PROGRESS (validated pair, getBoardLists issued), for any other status
\* it returns with the status as it was; when it returns after the
\* auto-transition the persisted status is IN_PROGRESS and the card has
\* been moved; and no step changes a status except the final write of a
\* call that went through validation and the board move.
C7_AssignAutoTransition ==
    [][/\ \A c \in Calls :
             (/\ calls'[c].op = "assignTask"
              /\ calls[c].pc \in {"idle", "member"}
              /\ calls'[c].pc \notin {"idle", "member", "failed"})
             => /\ tasks'[calls'[c].task].assignedTo = calls'[c].assignee
                /\ tasks'[calls'[c].task].status = tasks[calls'[c].task].status
                /\ IF tasks[calls'[c].task].status = TODO
                   THEN /\ calls'[c].pc = "lists"
                        /\ calls'[c].prev = TODO
                        /\ calls'[c].target = IN_PROGRESS
                        /\ calls'[c].api[Len(calls'[c].api)] = "getBoardLists"
                   ELSE calls'[c].pc = "returned"
       /\ \A c \in Calls :
             (ReturnsNow(c, "assignTask") /\ calls[c].pc = "moved")
             => /\ tasks'[calls[c].task].status = IN_PROGRESS
                /\ cardList[calls[c].task] # None
       /\ \A t \in TaskIds :
             tasks'[t].status # tasks[t].status
                => \E c \in Calls :
                      /\ calls[c].task = t
                      /\ calls[c].pc = "moved"
                      /\ <<calls[c].prev, calls[c].target>> \in AdjacencyTable
                      /\ tasks'[t].status = calls[c].target]_vars

C7_Witness ==
    \E c \in Calls :
        /\ calls[c].op = "assignTask"
        /\ calls[c].pc = "returned"
        /\ calls[c].prev = TODO
        /\ calls[c].assignee = "A"
        /\ calls[c].api = << "addCardMember", "getBoardLists", "updateCard" >>
        /\ tasks[calls[c].task].status = IN_PROGRESS
        /\ tasks[calls[c].task].assignedTo = "A"

\* ------------------------------------------------------- claims: sweep
\* two delivery requests for the same (task, recipient, window)
SameKey(e, f) == e.task = f.task /\ e.to = f.to /\ e.hours = f.hours

\* the requests of the outbox before this step
Earlier == 1..Len(outbox)

\* the requests made by this step
Fresh == (Len(outbox) + 1)..Len(outbox')

\* C1: once the notification of window W (24h, 6h or 2h) for task T has
\* been delivered to recipient R, no later sendReminders run requests the
\* delivery of (T, R, W) again.
C1_AsStated ==
    [][sweeps' = sweeps + 1
          => \A i \in Earlier, j \in Fresh :
                ~(/\ outbox'[i].ok
                  /\ outbox'[i].hours # 0
                  /\ SameKey(outbox'[i], outbox'[j]))]_vars

\* C8: after a run has delivered the overdue notification of a task, no run
\* less than 24 hours later requests an overdue notification for that task.
C8_AsStated ==
    [][sweeps' = sweeps + 1
          => \A i \in Earlier, j \in Fresh :
                ~(/\ outbox'[i].ok
                  /\ outbox'[i].type = "overdue"
                  /\ outbox'[j].type = "overdue"
                  /\ outbox'[j].task = outbox'[i].task
                  /\ outbox'[j].at - outbox'[i].at < 24)]_vars

\* the most recent overdue sent_at of task t, as a set (empty when none)
LastOverdueSentAt(t) ==
    {r.sentAt : r \in {q \in reminders : q.task = t /\ q.type = "overdue"}}

\* C9: for a task that is not done and whose due date is before now, when
\* no overdue sentAt exists or the latest is more than 24 hours old, the run
\* requests the overdue notification for every recipient of the task and
\* records an overdue row with sentAt = now.
C9_AsStated ==
    [][sweeps' = sweeps + 1
          => \A t \in TaskIds :
                (/\ tasks[t].exists
                 /\ tasks[t].status # DONE
                 /\ tasks[t].dueDate # NoDue
                 /\ tasks[t].dueDate < now
                 /\ \A at \in LastOverdueSentAt(t) : now - at > 24)
                => /\ \A u \in {tasks[t].createdBy, tasks[t].assignedTo} \ {None} :
                         \E j \in Fresh :
                            /\ outbox'[j].task = t
                            /\ outbox'[j].to = u
                            /\ outbox'[j].type = "overdue"
                   /\ \E r \in reminders' :
                         r.task = t /\ r.type = "overdue" /\ r.sentAt = now]_vars

\* C10: t1 in TODO, due 5 hours from now, assignee A, creator B, nothing
\* else in the store, empty ledger, both users reachable: one run requests
\* the 6h-window notification for A and for B, none of the 2h or 24h
\* window, and leaves exactly the rows (t1, A, 6h) and (t1, B, 6h), sentAt set.
C10_AsStated ==
    (/\ sweeps = 1
     /\ ticks = 0
     /\ unreachable = {}
     /\ ~tasks["t2"].exists
     /\ tasks["t1"].status = TODO
     /\ tasks["t1"].createdBy = "B"
     /\ tasks["t1"].assignedTo = "A"
     /\ tasks["t1"].dueDate = now + 5)
    => /\ \A u \in {"A", "B"} :
             \E j \in 1..Len(outbox) :
                outbox[j].task = "t1" /\ outbox[j].to = u /\ outbox[j].hours = 6
       /\ \A j \in 1..Len(outbox) :
             outbox[j].task = "t1" => outbox[j].hours = 6
       /\ {<<r.task, r.user, r.type>> : r \in reminders}
             = {<<"t1", "A", "6h">>, <<"t1", "B", "6h">>}
       /\ \A r \in reminders : r.sentAt # NoSentAt

\* ------------------------------------------- claims: sweep, one invocation
\* the ledger name of the window of `hours` hours, as the design writes it
WindowName == [h \in {24, 6, 2} |-> IF h = 24 THEN "24h" ELSE IF h = 6 THEN "6h" ELSE "2h"]

\* the recipients the design resolves for task t: creator, plus assignee
ResolvedRecipients(t) == {tasks[t].createdBy, tasks[t].assignedTo} \ {None}

\* recipient u has a sent ledger entry for (t, window of `hours` hours)
HasSentEntry(led, t, u, hours) ==
    \E r \in led : /\ r.task = t
                   /\ r.user = u
                   /\ r.type = WindowName[hours]
                   /\ r.sentAt # NoSentAt

\* the window deliveries a run starting now owes: (task, recipient, hours)
\* for every open task a window query returns and every recipient of it
\* that lacks a sent entry
WindowOwed ==
    { k \in TaskIds \X Users \X {24, 6, 2} :
         /\ InUpcoming(tasks[k[1]], now, k[3])
         /\ k[2] \in ResolvedRecipients(k[1])
         /\ ~HasSentEntry(reminders, k[1], k[2], k[3]) }

\* the overdue deliveries a run starting now owes: (task, recipient, 0) for
\* every open task past its due date with no overdue sentAt, or one older
\* than 24 hours
OverdueOwed ==
    { k \in TaskIds \X Users \X {0} :
         /\ tasks[k[1]].exists
         /\ tasks[k[1]].status # DONE
         /\ tasks[k[1]].dueDate # NoDue
         /\ tasks[k[1]].dueDate < now
         /\ k[2] \in ResolvedRecipients(k[1])
         /\ \A at \in LastOverdueSentAt(k[1]) : now - at > 24 }

\* the requests of this step for (task, recipient, hours)
FreshFor(k) ==
    { j \in Fresh : /\ outbox'[j].task = k[1]
                    /\ outbox'[j].to = k[2]
                    /\ outbox'[j].hours = k[3] }

\* C11: in a run in which no delivery fails, delivery is requested exactly
\* once for every (window, task, recipient) of every open task a window query
\* returns whose recipient has no sent ledger entry, over all windows, and
\* the overdue pass runs in the same invocation.
C11_AsStated ==
    [][(sweeps' = sweeps + 1 /\ unreachable = {})
          => /\ \A k \in WindowOwed : Cardinality(FreshFor(k)) = 1
             /\ \A k \in OverdueOwed : FreshFor(k) # {}]_vars

\* C12: deduplication is per recipient.  In a run, for an open task of a
\* window, a recipient that already has a sent entry for (task, recipient,
\* window) is not sent the window notification again, and every recipient
\* lacking one is sent it and has a ledger entry with sentAt afterwards.
C12_AsStated ==
    [][sweeps' = sweeps + 1
          => \A t \in TaskIds, u \in Users, h \in {24, 6, 2} :
                (InUpcoming(tasks[t], now, h) /\ u \in ResolvedRecipients(t))
                => IF HasSentEntry(reminders, t, u, h)
                   THEN FreshFor(<< t, u, h >>) = {}
                   ELSE /\ FreshFor(<< t, u, h >>) # {}
                        /\ HasSentEntry(reminders', t, u, h)]_vars

\* a delivery of this step failed
SomeDeliveryFailed == \E j \in Fresh : ~outbox'[j].ok

\* C13: in a run in which the delivery to one recipient fails, the other
\* recipients of the same task are still sent the notification, the ledger
\* is still updated for them, the remaining tasks and windows are still
\* processed, and the overdue pass still runs.
C13_AsStated ==
    [][(sweeps' = sweeps + 1 /\ SomeDeliveryFailed)
          => /\ \A k \in WindowOwed :
                   /\ FreshFor(k) # {}
                   /\ k[2] \notin unreachable => HasSentEntry(reminders', k[1], k[2], k[3])
             /\ \A k \in OverdueOwed : FreshFor(k) # {}]_vars

\* the overdue request most recently made to recipient u for task t failed
LastOverdueAttemptFailed(t, u) ==
    \E i \in Earlier :
       /\ outbox[i].task = t
       /\ outbox[i].to = u
       /\ outbox[i].type = "overdue"
       /\ ~outbox[i].ok
       /\ \A k \in Earlier :
             (k > i /\ outbox[k].task = t /\ outbox[k].type = "overdue")
             => outbox[k].to # u

\* C14: a run leaves no ledger row marked sent by it for a (task, recipient)
\* whose delivery failed in it; and an overdue task whose overdue delivery to
\* a recipient failed is requested again for that recipient by the next run.
C14_AsStated ==
    [][sweeps' = sweeps + 1
          => /\ \A j \in Fresh :
                   ~outbox'[j].ok
                   => ~\E r \in reminders' \ reminders :
                          r.task = outbox'[j].task /\ r.user = outbox'[j].to
             /\ \A t \in TaskIds, u \in Users :
                   LastOverdueAttemptFailed(t, u)
                   => FreshFor(<< t, u, 0 >>) # {}]_vars

\* C15: no run of the job changes the status, or any other field, of any
\* task.
C15_SweepLeavesTasks ==
    [][sweeps' = sweeps + 1 => tasks' = tasks]_vars

\* a run has sent the overdue notification of a task, which is still open
C15_Witness ==
    /\ sweeps >= 1
    /\ \E j \in 1..Len(outbox) :
          /\ outbox[j].type = "overdue"
          /\ tasks[outbox[j].task].status # DONE
          /\ tasks[outbox[j].task].dueDate < now

C17_NoDueDateNoReminder ==
    [][sweeps' = sweeps + 1
          => \A t \in TaskIds :
                (tasks[t].exists /\ tasks[t].dueDate = NoDue)
                => /\ \A h \in {24, 6, 2} : ~InUpcoming(tasks[t], now, h)
                   /\ ~InOverdue(tasks[t], now)
                   /\ \A j \in Fresh : outbox'[j].task # t
                   /\ \A r \in reminders' : r.task # t]_vars

\* a run notified t2 while the open task t1 has no due date
C17_Witness ==
    /\ sweeps >= 1
    /\ tasks["t1"].exists
    /\ tasks["t1"].status # DONE
    /\ tasks["t1"].dueDate = NoDue
    /\ outbox # << >>
    /\ \A j \in 1..Len(outbox) : outbox[j].task = "t2"

\* ------------------------------------------------------- claims: digest
\* the digest messages handed to Telegram by this step
FreshDigests == { digests'[j] : j \in (Len(digests) + 1)..Len(digests') }

\* the settings row of u says digestEnabled = false
SwitchedOff(u) == settings[u].exists /\ settings[u].digestEnabled = 0

\* C18: no digest run, morning or evening, sends anything to a user whose
\* settings have digestEnabled = false.
C18_DisabledUserGetsNothing ==
    [][\A m \in FreshDigests : ~SwitchedOff(m.to)]_vars

\* a morning run is over: owner A, switched off with hour 9, got nothing,
\* while B got the digest
C18_Witness ==
    /\ ~digestRun.active
    /\ digestRuns = 1
    /\ roles["A"] = "owner"
    /\ SwitchedOff("A")
    /\ settings["A"].digestHour = 9
    /\ digests = << [to |-> "B", kind |-> "morning", run |-> 1, ok |-> TRUE] >>

\* number of occurrences of u in the sequence q
Occurrences(q, u) == Cardinality({i \in 1..Len(q) : q[i] = u})

\* u is due the morning digest: digestEnabled (true without a row), hour 9
DueMorningDigest(u) ==
    IF settings[u].exists
    THEN settings[u].digestEnabled # 0 /\ settings[u].digestHour = 9
    ELSE TRUE

\* A morning run visits each user of Served once and no one else; the
\* visit of a user sends that user one digest when digestEnabled is true and
\* the hour is 9, and nothing otherwise; nothing is sent outside a visit.
C19_MorningRun(Served(_)) ==
       /\ (~digestRun.active /\ digestRun'.active /\ digestRun'.kind = "morning")
          => \A u \in Users :
                Occurrences(digestRun'.queue, u) = IF Served(u) THEN 1 ELSE 0
       /\ (digestRun.active /\ digestRun.kind = "morning"
             /\ digestRun'.active /\ digestRun' # digestRun)
          => /\ digestRun'.queue = Tail(digestRun.queue)
             /\ digests' = digests \o
                   (IF DueMorningDigest(Head(digestRun.queue))
                    THEN << [to |-> Head(digestRun.queue), kind |-> "morning",
                             run |-> digestRuns,
                             ok |-> Head(digestRun.queue) \notin unreachable] >>
                    ELSE << >>)
       /\ (digestRun' = digestRun \/ ~digestRun.active \/ ~digestRun'.active)
          => digests' = digests

EveryUser(u) == TRUE

OwnerOrAdmin(u) == roles[u] \in {"owner", "admin"}

\* C19 as stated: a morning run attempts exactly one digest send to every
\* user with digestEnabled = true (also by default) whose hour is 9, and none
\* to a user with another hour.
C19_AsStated == [][C19_MorningRun(EveryUser)]_vars

\* C19, amended: the same for every user whose role is owner or admin; a
\* user of any other role is sent nothing.
C19_OwnersAndAdmins == [][C19_MorningRun(OwnerOrAdmin)]_vars

\* a morning run is over: owner A without a settings row got one digest,
\* admin B with hour 18 got none
C19_Witness ==
    /\ ~digestRun.active
    /\ digestRuns = 1
    /\ roles["A"] = "owner"
    /\ roles["B"] = "admin"
    /\ ~settings["A"].exists
    /\ settings["B"].exists
    /\ settings["B"].digestEnabled = 1
    /\ settings["B"].digestHour = 18
    /\ digests = << [to |-> "A", kind |-> "morning", run |-> 1, ok |-> TRUE] >>

\* C20: reading the settings of a user without a row yields digestEnabled =
\* true, digestHour = 9, notificationsEnabled = true from both readers
\* (getUserSettings and getOrDefault) and leaves the settings table as it was.
C20_DefaultsWithoutRow ==
    [][\A u \in Users :
          (lastRead' # lastRead /\ lastRead'.user = u /\ ~settings[u].exists)
          => /\ lastRead'.digest = [digestEnabled |-> TRUE, digestHour |-> 9,
                                    notificationsEnabled |-> TRUE]
             /\ lastRead'.repo = [userId |-> u, digestHour |-> 9,
                                  digestEnabled |-> TRUE,
                                  notificationsEnabled |-> TRUE]
             /\ settings' = settings]_vars

\* the settings of A, who has no row, were read while B has a row that
\* says otherwise
C20_Witness ==
    /\ lastRead.user = "A"
    /\ ~settings["A"].exists
    /\ lastRead.digest.digestHour = 9
    /\ lastRead.repo.digestEnabled
    /\ settings["B"].exists
    /\ settings["B"].digestHour = 18
    /\ settings["B"].notificationsEnabled = 0

\* ------------------------------------------- claims: digest and reminders
\* this step belongs to a digest run
DigestActs == digestRun' # digestRun \/ digests' # digests

\* C21: no step of a digest run, morning or evening, changes a task or the
\* reminders table; a run of the reminders job still notifies the creator
\* of the open task it finds first, whatever digests were sent before; and a
\* visit of the digest still sends the digest to a user whose digest is on
\* (and, in the morning, whose hour is 9), whatever reminders were sent before.
C21_ChannelsIndependent ==
    [][/\ DigestActs => (tasks' = tasks /\ reminders' = reminders /\ outbox' = outbox)
       /\ (sweeps' = sweeps + 1
             /\ (InUpcoming(tasks["t1"], now, 24) \/ InOverdue(tasks["t1"], now)))
          => \E j \in Fresh :
                outbox'[j].task = "t1" /\ outbox'[j].to = tasks["t1"].createdBy
       /\ (digestRun.active /\ digestRun'.active /\ digestRun' # digestRun)
          => LET u == Head(digestRun.queue)
                 s == getUserSettings(settings, u)
             IN  (s.digestEnabled /\ (digestRun.kind = "evening" \/ s.digestHour = 9))
                 => /\ Len(digests') = Len(digests) + 1
                    /\ digests'[Len(digests')].to = u]_vars

\* two runs of the reminders job notified B about t1 and a digest run sent
\* B the digest; t1 is still open and the ledger holds nothing from the digest
C21_Witness ==
    /\ sweeps = 2
    /\ ~digestRun.active
    /\ digestRuns >= 1
    /\ tasks["t1"].status = TODO
    /\ Cardinality({j \in 1..Len(outbox) : outbox[j].to = "B" /\ outbox[j].ok}) = 2
    /\ \E j \in 1..Len(digests) : digests[j].to = "B" /\ digests[j].ok
    /\ reminders = {}

\* the digests handed to Telegram for user u by the run numbered r
SentInRun(r, u) == {j \in 1..Len(digests) : digests[j].run = r /\ digests[j].to = u}

\* C22: a visit whose send is rejected leaves the run going with the rest of
\* its users, and when the run ends every owner and admin whose digest is on
\* (and, in the morning, whose hour is 9) has had exactly one send attempt.
C22_FailureIsolated ==
    [][/\ (digestRun.active /\ digestRun'.active /\ digestRun' # digestRun)
          => digestRun'.queue = Tail(digestRun.queue)
       /\ (digestRun.active /\ ~digestRun'.active)
          => \A u \in Users :
                LET s == getUserSettings(settings, u)
                IN  (/\ roles[u] \in {"owner", "admin"}
                     /\ s.digestEnabled
                     /\ (digestRun.kind = "evening" \/ s.digestHour = 9))
                    => Cardinality(SentInRun(digestRuns, u)) = 1]_vars

\* a morning run is over: the send to A was rejected, B was sent the digest
\* after it
C22_Witness ==
    /\ ~digestRun.active
    /\ digestRuns = 1
    /\ unreachable = {"A"}
    /\ digests = << [to |-> "A", kind |-> "morning", run |-> 1, ok |-> FALSE],
                    [to |-> "B", kind |-> "morning", run |-> 1, ok |-> TRUE] >>

\* ------------------------------------------------------- claims: scheduler
\* an invocation of job n ended in this step
Ended(n) == inflight'[n] < inflight[n]

\* C23: an exception raised inside a job's callback is caught and logged:
\* it leaves no exception uncaught, changes no cron task and no map entry
\* (the job and the other jobs keep firing) and touches no other job's
\* invocations.
C23_CallbackFailureContained ==
    [][/\ ~crashed'
       /\ \A n \in JobNames :
             Ended(n)
             => /\ cronTasks' = cronTasks
                /\ scheduledJobs' = scheduledJobs
                /\ \A m \in JobNames \ {n} : inflight'[m] = inflight[m]
                /\ errorLog' = IF lastOp'.op = "threw" THEN errorLog + 1 ELSE errorLog]_vars

\* an invocation threw, the error was logged, and a job fired after it
C23_Witness ==
    /\ errorLog = 1
    /\ ~crashed
    /\ lastOp.op = "fire"
    /\ fires >= 2
    /\ \A n \in JobNames : Triggers(n) # {}

\* C24 as stated: after any number of setupScheduledJobs calls with no
\* stop between them, each of the four names has exactly one scheduled
\* trigger, and a firing time of a job starts exactly one invocation of it.
C24_AsStated ==
    /\ (\A n \in JobNames : Registered(n))
          => \A n \in JobNames : Cardinality(Triggers(n)) = 1
    /\ lastOp.op = "fire" => lastOp.started = 1

\* what status() is to return: no entry without a map entry, true for a
\* registered job that runs
ExpectedStatus ==
    [n \in JobNames |->
        IF ~Registered(n) THEN "absent"
        ELSE IF Triggers(n) # {} THEN "true" ELSE "false"]

\* C25 as stated: after stopScheduledJobs no trigger of the scheduler is
\* left scheduled until setupScheduledJobs is called again, and status()
\* returns the empty map; after setupScheduledJobs, status() maps exactly
\* the four names, each to true.
C25_AsStated ==
    /\ (\A n \in JobNames : ~Registered(n)) => \A t \in cronTasks : ~t.scheduled
    /\ lastOp.op = "status" => lastStatus = ExpectedStatus

\* C26: restartJob(n) for a registered n leaves job n scheduled and changes
\* neither the map nor any other cron task nor any invocation in progress;
\* for a name the map does not hold it changes nothing and creates no task.
C26_RestartOnlyNamed ==
    [][\A n \in RestartNames :
          (lastOp' # lastOp /\ lastOp'.op = "restart" /\ lastOp'.name = n)
          => /\ scheduledJobs' = scheduledJobs
             /\ inflight' = inflight
             /\ { t \in cronTasks' : t.name # n } = { t \in cronTasks : t.name # n }
             /\ { << t.name, t.gen >> : t \in cronTasks' }
                   = { << t.name, t.gen >> : t \in cronTasks }
             /\ IF n \in JobNames /\ Registered(n)
                THEN \E t \in cronTasks' :
                        t.name = n /\ t.gen = scheduledJobs[n] /\ t.scheduled
                ELSE cronTasks' = cronTasks]_vars

\* the cleanup job was restarted while an invocation of the reminders job
\* was in progress; all four jobs are registered and scheduled
C26_Witness ==
    /\ lastOp.op = "restart"
    /\ lastOp.name = "cleanup"
    /\ setups = 1
    /\ inflight["reminders"] = 1
    /\ \A n \in JobNames : Registered(n) /\ Cardinality(Triggers(n)) = 1

\* C27 as stated: at no time are two invocations of the same job in
\* progress.
C27_AsStated == \A n \in JobNames : inflight[n] <= 1

\* ------------------------------------------------------------ board client
maxRetries == 3                     \* config.limits.maxRetries
MaxRequests == 2                    \* client calls in one behaviour
MaxAuthDepth == 2                   \* authenticate() calls nested in one another

\* what the board server may answer; NoResponse is a request that got no
\* response at all (error.response is undefined)
NoResponse == 0
Answers == {200, 401, 404, 503, NoResponse}

\* originalRequest._retryCount < n: false while _retryCount is undefined
Less(retryCount, n) == Len(retryCount) = 1 /\ retryCount[1] < n

\* originalRequest._retryCount || 0
OrZero(retryCount) == IF Len(retryCount) = 1 THEN retryCount[1] ELSE 0

\* the branch the response interceptor takes for a failed request with
\* config cfg answered with st
Decide(cfg, st) ==
    IF st = 401 /\ ~cfg.retry THEN "reauth"
    ELSE IF st >= 500 /\ Less(cfg.retryCount, maxRetries) THEN "retry"
    ELSE "reject"

\* the config of a request created by authenticate()
AuthRequest == [retry |-> FALSE, retryCount |-> << >>]

\* a client method (getBoardLists, updateCard, ...): ensureAuthenticated,
\* then the request
ClientCall ==
    /\ http.phase \in {"idle", "done"}
    /\ requests < MaxRequests
    /\ requests' = requests + 1
    /\ http' = IF token
               THEN [IdleRequest EXCEPT !.phase = "sent", !.sends = 1]
               ELSE [IdleRequest EXCEPT !.phase = "authing", !.stack = << AuthRequest >>,
                                        !.authSends = 1]
    /\ UNCHANGED token
    /\ UNCHANGED << storeVars, digestVars, schedVars, jobVars >>

\* the server answers the method's request with st: the response
\* interceptor runs, and the method's catch turns a rejection into a
\* PLANKA_ERROR
Answer(st) ==
    /\ http.phase = "sent"
    /\ LET h == [http EXCEPT !.history = Append(@, st)]
           k == OrZero(http.retryCount) + 1
       IN  http' =
             IF st = 200 THEN [h EXCEPT !.phase = "done", !.outcome = "ok"]
             ELSE CASE Decide(http, st) = "reauth" ->
                         [h EXCEPT !.retry = TRUE, !.phase = "authing",
                                   !.stack = << AuthRequest >>, !.authSends = @ + 1]
                    [] Decide(http, st) = "retry" ->
                         [h EXCEPT !.retryCount = << k >>,
                                   !.delays = Append(@, (2 ^ k) * 1000),
                                   !.sends = @ + 1]
                    [] OTHER ->
                         [h EXCEPT !.phase = "done", !.outcome = PLANKA_ERROR]
    /\ UNCHANGED << requests, token >>
    /\ UNCHANGED << storeVars, digestVars, schedVars, jobVars >>

\* the server answers the innermost /access-tokens request with st. That
\* request goes through the same client, so the same interceptor handles
\* its failure; a rejection makes every authenticate() in progress throw
AuthAnswer(st) ==
    /\ http.phase = "authing"
    /\ LET d == Len(http.stack)
           top == http.stack[d]
           below == SubSeq(http.stack, 1, d - 1)
           k == OrZero(top.retryCount) + 1
       IN  IF st = 200
           THEN /\ token' = TRUE
                /\ http' = IF d = 1
                           THEN [http EXCEPT !.stack = << >>, !.phase = "sent",
                                             !.sends = @ + 1]
                           ELSE [http EXCEPT !.stack = below, !.authSends = @ + 1]
           ELSE CASE Decide(top, st) = "reauth" ->
                       /\ d < MaxAuthDepth
                       /\ http' = [http EXCEPT
                                     !.stack = Append([http.stack EXCEPT ![d].retry = TRUE],
                                                      AuthRequest),
                                     !.authSends = @ + 1]
                       /\ UNCHANGED token
                  [] Decide(top, st) = "retry" ->
                       /\ http' = [http EXCEPT
                                     !.stack[d].retryCount = << k >>,
                                     !.delays = Append(@, (2 ^ k) * 1000),
                                     !.authSends = @ + 1]
                       /\ UNCHANGED token
                  [] OTHER ->
                       /\ http' = [http EXCEPT !.stack = << >>, !.phase = "done",
                                               !.outcome = PLANKA_ERROR]
                       /\ UNCHANGED token
    /\ UNCHANGED requests
    /\ UNCHANGED << storeVars, digestVars, schedVars, jobVars >>

\* the client holds a token or not (never authenticated, or expired)
InitClient ==
    /\ InitRest
    /\ roles = [u \in Users |-> "employee"]
    /\ settings = [u \in Users |-> NoSettingsRow]
    /\ cronTasks = {}
    /\ scheduledJobs = [n \in JobNames |-> 0]
    /\ inflight = [n \in JobNames |-> 0]
    /\ errorLog = 0
    /\ crashed = FALSE
    /\ hasRunning = FALSE
    /\ lastStatus = [n \in JobNames |-> "absent"]
    /\ lastOp = NoSchedOp
    /\ setups = 0
    /\ fires = 0
    /\ http = IdleRequest
    /\ requests = 0
    /\ token \in BOOLEAN
    /\ cleanupLog = << >>
    /\ bulk = NoBulk

NextClient ==
    \/ ClientCall
    \/ \E st \in Answers : Answer(st)
    \/ \E st \in Answers : AuthAnswer(st)

ClientSpec == InitClient /\ [][NextClient]_vars

\* -------------------------------------------------------- claims: client
\* a failure of the 5xx / network class
Retriable(st) == st >= 500 \/ st = NoResponse

\* C28 as stated: a request is sent again after its i-th answer exactly when
\* that answer is a 5xx or network failure and fewer than maxRetries
\* retries were made; the k-th retry waits 2^k seconds; a request answered
\* with a 4xx status is not sent again; a request is sent at most
\* 1 + maxRetries times.
C28_AsStated ==
    /\ http.sends <= 1 + maxRetries
    /\ \A i \in 1..Len(http.history) :
          /\ (http.history[i] \in 400..499) => http.sends = i
          /\ (http.phase = "done" /\ Retriable(http.history[i]) /\ i <= maxRetries)
                => http.sends > i
    /\ http.sends >= 1 => Len(http.delays) = http.sends - 1
    /\ \A k \in 1..Len(http.delays) : http.delays[k] = (2 ^ k) * 1000

\* ------------------------------------------------------------ cleanup job
\* datetime('now', '-30 days'), in hours
RetentionHours == 30 * 24

\* DELETE FROM reminders WHERE sent_at < datetime('now', '-30 days'): both
\* sides are texts of the CURRENT_TIMESTAMP form; a NULL sent_at satisfies
\* no comparison
TooOld(r, clock) ==
    /\ r.sentAt # NoSentAt
    /\ TextLess(CURRENT_TIMESTAMP(r.sentAt), CURRENT_TIMESTAMP(clock - RetentionHours))

\* mutant: a cleanup that empties the table
cleanupOldReminders_All(led, clock) == [led |-> {}, changes |-> Cardinality(led)]

\* cleanupOldReminders: the rows left and info.changes
cleanupOldReminders(led, clock) ==
    [led |-> {r \in led : ~TooOld(r, clock)},
     changes |-> Cardinality({r \in led : TooOld(r, clock)})]

\* cleanupExpired: of its five steps only cleanupOldReminders touches the
\* reminders table; cleanupOldDrafts deletes tasks of status 'draft', a
\* status no task of this store has
cleanupExpired ==
    /\ LET r == cleanupOldReminders(reminders, now)
       IN  /\ reminders' = r.led
           /\ cleanupLog' = << r.changes >>
    /\ UNCHANGED << tasks, board, cardList, calls, ops, now, outbox, sweeps, ticks,
                    unreachable, digestVars, schedVars, httpVars, bulk >>

\* the hour the observation of the ledger starts: 10:00 on the 32nd day
StartOfLedger == 31 * 24 + 10

\* sent_at values of stored rows: NULL, 30 days and an hour ago, exactly 30
\* days ago, an hour ago
SentAtChoices ==
    {NoSentAt, StartOfLedger - RetentionHours - 1, StartOfLedger - RetentionHours,
     StartOfLedger - 1}

\* UNIQUE(task_id, user_id, type)
UniqueKeys(led) ==
    \A r, q \in led : (r.task = q.task /\ r.user = q.user /\ r.type = q.type) => r = q

\* the rows the schema of the reminders table admits for task t1
LedgerRows ==
    [task : {"t1"}, user : {CreatorOf["t1"]}, type : ReminderTypeCheck, sentAt : SentAtChoices]

\* the database file holds an open task t1, overdue or due in 5 hours, and
\* any set of reminders rows for it that the table's constraints admit; A
\* is an owner
InitLedger ==
    /\ ServicesIdle
    /\ cardList = [t \in TaskIds |-> None]
    /\ calls = [c \in Calls |-> IdleCall]
    /\ ops = 0
    /\ outbox = << >>
    /\ sweeps = 0
    /\ ticks = 0
    /\ board = Kanban
    /\ now = StartOfLedger
    /\ unreachable = {}
    /\ settings = [u \in Users |-> NoSettingsRow]
    /\ roles = [u \in Users |-> IF u = "A" THEN "owner" ELSE "employee"]
    /\ digestRun = NoDigestRun
    /\ digests = << >>
    /\ digestRuns = 0
    /\ lastRead = NoRead
    /\ reminders \in { led \in SUBSET LedgerRows : UniqueKeys(led) }
    /\ \E d1 \in {10, StartOfLedger + 5} :
          tasks = [t \in TaskIds |->
                      IF t = "t1"
                      THEN [exists |-> TRUE, status |-> TODO, createdBy |-> CreatorOf[t],
                            assignedTo |-> None, dueDate |-> d1]
                      ELSE AbsentTask]

NextLedger ==
    \/ Sweep
    \/ cleanupExpired
    \/ \E kind \in DigestKinds : StartDigest(kind)
    \/ DigestStep
    \/ FinishDigest

LedgerSpec == InitLedger /\ [][NextLedger]_vars

\* -------------------------------------------------------- claims: ledger
\* the row of `led` with the key of r, as a set
WithKey(led, r) == { q \in led : q.task = r.task /\ q.user = r.user /\ q.type = r.type }

\* C29: the reminders table never holds two rows of one (task, user, type);
\* a row whose sentAt is set keeps a set sentAt for as long as it exists;
\* a step of a sweep or of a digest removes no row; a row is removed only
\* by the cleanup job and only when its sentAt is more than 30 days old.
C29_LedgerInvariant ==
    [][/\ UniqueKeys(reminders')
       /\ \A r \in reminders :
             /\ r.sentAt # NoSentAt => \A q \in WithKey(reminders', r) : q.sentAt # NoSentAt
             /\ WithKey(reminders', r) = {}
                   => /\ cleanupLog' # << >>
                      /\ sweeps' = sweeps
                      /\ digestRun' = digestRun
                      /\ digests' = digests
                      /\ r.sentAt # NoSentAt
                      /\ r.sentAt + RetentionHours < now]_vars

\* after a sweep and a digest run the cleanup job removed a row older than
\* 30 days and left a row exactly 30 days old and one without sentAt
C29_Witness ==
    /\ cleanupLog = << 1 >>
    /\ sweeps >= 1
    /\ digestRuns >= 1
    /\ \E r \in reminders : r.sentAt = StartOfLedger - RetentionHours
    /\ \E r \in reminders : r.sentAt = NoSentAt

\* -------------------------------------------------- claims: window labels
\* the label of the window of `hours` hours; 0 is the overdue pass
LabelOf(hours) == IF hours = 0 THEN "overdue" ELSE WindowName[hours]

\* C30 as stated: the ledger write a run issues after the sends of (task,
\* window) carries the window's label, 24h, 6h, 2h, or overdue for the
\* overdue pass, and the reminders table accepts it: after the run the
\* table holds a row of that task and label, sent now.
C30_AsStated ==
    [][\A j \in Fresh :
          LET e == outbox'[j]
          IN  /\ e.type = LabelOf(e.hours)
              /\ \E r \in reminders' :
                    r.task = e.task /\ r.type = LabelOf(e.hours) /\ r.sentAt = now]_vars

\* ------------------------------------------- updateTaskStatus and its actor
\* the store holds t1 in any status; t2 is unknown; the board has the four
\* lists
InitActor ==
    /\ InitStore
    /\ board = Kanban
    /\ \E s \in TaskStatus :
          tasks = [t \in TaskIds |->
                      IF t = "t1"
                      THEN [exists |-> TRUE, status |-> s, createdBy |-> CreatorOf[t],
                            assignedTo |-> None, dueDate |-> NoDue]
                      ELSE AbsentTask]

\* one updateTaskStatus call at a time, on behalf of any user id
NextActor ==
    \/ \E t \in TaskIds, s \in TaskStatus, userId \in Users \cup Strangers :
          StartUpdateStatusBy("c1", t, s, userId)
    \/ ListsResolved("c1")
    \/ BoardMovesCard("c1")
    \/ PersistStatus("c1")
    \/ BoardCallFails("c1")
    \/ Finish("c1")

ActorSpec == InitActor /\ [][NextActor]_vars

\* ---------------------------------------------- claims: description, atomicity
\* call c passes its last board call in this step: updateCard has resolved
\* and the rest of updateTaskStatus runs
PastBoard(c) ==
    /\ calls[c].pc = "moved"
    /\ calls'[c].pc # "moved"
    /\ calls'[c].err # PLANKA_ERROR

\* C35 as stated: once updateCard has resolved, the call returns the task
\* with the new status whoever the actor is, with or without a user record;
\* building the description of the change cannot make it fail.
C35_AsStated ==
    [][\A c \in Calls :
          PastBoard(c) => /\ calls'[c].pc = "returned"
                          /\ calls'[c].ret = calls[c].target
                          /\ tasks'[calls[c].task].status = calls[c].target]_vars

\* call c throws in this step
ThrowsNow(c) == calls[c].pc # "failed" /\ calls'[c].pc = "failed"

\* C38 as stated: a step in which an updateTaskStatus call throws, with any
\* error, writes nothing to the tasks table, and the task, when it exists,
\* still has the status the call read at its start; a step in which the
\* call returns leaves the task in the target status.
C38_AsStated ==
    [][\A c \in Calls :
          /\ (ThrowsNow(c) /\ calls'[c].op = "updateTaskStatus")
                => /\ tasks' = tasks
                   /\ tasks[calls'[c].task].exists
                         => tasks'[calls'[c].task].status = calls'[c].prev
          /\ (calls[c].pc # "returned" /\ calls'[c].pc = "returned"
                 /\ calls'[c].op = "updateTaskStatus")
                => tasks'[calls'[c].task].status = calls'[c].target]_vars

\* ------------------------------------------------- claims: concurrent calls
\* C36 as stated: whatever the interleaving of the calls in progress, every
\* step that changes the persisted status of a task takes it from s to s'
\* with (s, s') in the adjacency table.
C36_AsStated ==
    [][\A t \in TaskIds :
          tasks'[t].status # tasks[t].status
             => << tasks[t].status, tasks'[t].status >> \in AdjacencyTable]_vars

\* C37 as stated: when a call returns after its write and no other call on
\* the task is still in progress, the persisted status is the status whose
\* list holds the card.
C37_AsStated ==
    [][\A c \in Calls :
          (/\ calls[c].pc = "moved"
           /\ calls'[c].pc = "returned"
           /\ \A d \in Calls \ {c} : calls[d].pc \in {"idle", "returned"})
          => tasks'[calls[c].task].status = cardList'[calls[c].task]]_vars

\* ------------------------------------------------------ claims: assignTask
\* C39 as stated: after an assignTask call that threw, the only call made
\* so far, the task has the assignee it had before the call and the status
\* the call read.
C39_AsStated ==
    \A c \in Calls :
        (/\ ops = 1
         /\ calls[c].op = "assignTask"
         /\ calls[c].pc = "failed"
         /\ tasks[calls[c].task].exists)
        => /\ tasks[calls[c].task].assignedTo = calls[c].previousAssignee
           /\ calls[c].prev # None => tasks[calls[c].task].status = calls[c].prev

\* C40 as stated: when an assignTask call, the only call made so far,
\* returns, the status of the task it returns is the persisted status.
C40_AsStated ==
    [][\A c \in Calls :
          (/\ ops = 1
           /\ calls[c].pc # "returned"
           /\ calls'[c].pc = "returned"
           /\ calls'[c].op = "assignTask")
          => calls'[c].ret = tasks'[calls'[c].task].status]_vars

\* ---------------------------------------------- claims: order and queries
\* the requests of this step made before request j for window w
FreshBefore(j, w) == { i \in Fresh : i < j /\ outbox'[i].hours = w }

\* C32 as stated: within one run the windows are processed in ascending
\* order of lead time, 2h, then 6h, then 24h: a request made for a window
\* comes after the requests of every shorter window that owes a delivery;
\* and the overdue pass comes after all windows.
C32_AsStated ==
    [][\A j \in Fresh :
          \A k \in WindowOwed :
             (outbox'[j].hours = 0 \/ k[3] < outbox'[j].hours)
                => FreshBefore(j, k[3]) # {}]_vars

\* task row r is open and has a due date
OpenWithDue(r) == r.exists /\ r.status # DONE /\ r.dueDate # NoDue

\* C33 as stated: at every current time and for every stored due date, the
\* window query of horizon h returns exactly the open tasks with
\* now <= dueDate <= now + h and the overdue query exactly the open tasks
\* with dueDate < now, as points in time.
C33_AsStated ==
    \A t \in TaskIds :
        /\ \A h \in {24, 6, 2} :
              InUpcoming(tasks[t], now, h)
                 <=> (/\ OpenWithDue(tasks[t])
                      /\ now <= tasks[t].dueDate
                      /\ tasks[t].dueDate <= now + h)
        /\ InOverdue(tasks[t], now)
              <=> (OpenWithDue(tasks[t]) /\ tasks[t].dueDate < now)

\* ---------------------------------------------------------- list resolution
\* the store holds t1 in any status, on any of the boards
InitResolve ==
    /\ InitStore
    /\ board \in ResolveBoards
    /\ \E s \in TaskStatus :
          tasks = [t \in TaskIds |->
                      IF t = "t1"
                      THEN [exists |-> TRUE, status |-> s, createdBy |-> CreatorOf[t],
                            assignedTo |-> None, dueDate |-> NoDue]
                      ELSE AbsentTask]

NextResolve ==
    \/ \E s \in TaskStatus : StartUpdateStatus("c1", "t1", s)
    \/ ListsResolved("c1")
    \/ BoardMovesCard("c1")
    \/ PersistStatus("c1")
    \/ BoardCallFails("c1")
    \/ Finish("c1")

ResolveSpec == InitResolve /\ [][NextResolve]_vars

\* -------------------------------------------------- claims: list resolution
\* the ranks of the candidate names of status s that some list name contains
MatchedRanks(lists, s) ==
    { k \in 1..Len(statusToListName[s]) :
         \E i \in 1..Len(lists) : statusToListName[s][k] \in lists[i] }

\* the positional index of status s, counted from 0
PositionOf(lists, s) ==
    CASE s = TODO        -> 0
      [] s = IN_PROGRESS -> 1
      [] s = IN_REVIEW   -> 2
      [] s = DONE        -> Len(lists) - 1

\* list number i (from 1) is a list the claim allows for status s
AllowedList(lists, s, i) ==
    IF MatchedRanks(lists, s) # {}
    THEN LET best == CHOOSE k \in MatchedRanks(lists, s) :
                        \A m \in MatchedRanks(lists, s) : k <= m
         IN  i \in 1..Len(lists) /\ statusToListName[s][best] \in lists[i]
    ELSE i = PositionOf(lists, s) + 1 /\ i \in 1..Len(lists)

\* C34: when updateCard is issued, the list it names is one whose name
\* contains the highest-ranked matching candidate of the target or, with no
\* match, the list at the positional index; when the board has no such
\* list, updateCard is never issued: the call fails with PLANKA_ERROR and
\* the tasks table is left as it was.
C34_ListResolution ==
    [][\A c \in Calls :
          calls[c].pc = "lists"
          => /\ calls'[c].pc = "card"
                   => /\ AllowedList(board, calls[c].target, calls'[c].targetList)
                      /\ calls'[c].api[Len(calls'[c].api)] = "updateCard"
             /\ (\A i \in 0..Len(board) : ~AllowedList(board, calls[c].target, i))
                   => /\ calls'[c].pc \in {"lists", "failed"}
                      /\ calls'[c].api = calls[c].api
             /\ calls'[c].pc = "failed"
                   => /\ calls'[c].err = PLANKA_ERROR
                      /\ calls'[c].api = calls[c].api
                      /\ tasks' = tasks]_vars

\* on a board with a "Backlog" list before its "Todo" list, the call
\* towards todo has issued updateCard for the second list
C34_Witness ==
    /\ board = BacklogFirst
    /\ calls["c1"].target = TODO
    /\ calls["c1"].pc = "card"
    /\ calls["c1"].targetList = 2
    /\ calls["c1"].api = << "getBoardLists", "updateCard" >>

\* ------------------------------------------------- every writer of tasks
\* a target status outside the enumeration: TaskStatus is a compile-time
\* type, the value is not checked when the use case is entered
Archived == "archived"

\* tasksRepo.create: a row for card t with the status given; a second row
\* for the same card violates UNIQUE(planka_card_id) and is not stored
CreateTask(t, s) ==
    /\ ~tasks[t].exists
    /\ tasks' = [tasks EXCEPT ![t] =
                    [exists |-> TRUE, status |-> s, createdBy |-> CreatorOf[t],
                     assignedTo |-> None, dueDate |-> NoDue]]
    /\ UNCHANGED << reminders, board, cardList, calls, ops, now, outbox, sweeps, ticks,
                    unreachable, digestVars, schedVars, httpVars, jobVars >>

\* the call slot bulkUpdateStatus runs its updateTaskStatus calls in
BulkCall == "c1"

\* bulkUpdateStatus(taskIds, newStatus, userId): the loop starts with the
\* first updateTaskStatus call
StartBulk(ids, s) ==
    /\ ~bulk.active
    /\ calls[BulkCall].pc = "idle"
    /\ ops < MaxOps
    /\ ops' = ops + 1
    /\ bulk' = [active |-> TRUE, queue |-> Tail(ids), target |-> s,
                updated |-> << >>, failed |-> << >>]
    /\ calls' = [calls EXCEPT ![BulkCall] =
                    BeginTransition([IdleCall EXCEPT !.op = "updateTaskStatus",
                                                     !.task = Head(ids), !.target = s,
                                                     !.actor = "A"],
                                    tasks, Head(ids), s)]
    /\ UNCHANGED << tasks, reminders, board, cardList, now, outbox, sweeps, ticks,
                    unreachable, digestVars, schedVars, httpVars, cleanupLog >>

\* the awaited updateTaskStatus call of the loop has returned or thrown: the
\* task id is pushed to updated or to failed, and the loop goes on with the
\* next id or the function returns
BulkNext ==
    /\ bulk.active
    /\ calls[BulkCall].pc \in {"returned", "failed"}
    /\ bulk.queue # << >> => ops < MaxOps
    /\ LET done == calls[BulkCall]
           upd == IF done.pc = "returned" THEN Append(bulk.updated, done.task)
                  ELSE bulk.updated
           fld == IF done.pc = "failed" THEN Append(bulk.failed, done.task)
                  ELSE bulk.failed
       IN  IF bulk.queue = << >>
           THEN /\ bulk' = [bulk EXCEPT !.active = FALSE, !.updated = upd, !.failed = fld]
                /\ calls' = [calls EXCEPT ![BulkCall] = IdleCall]
                /\ UNCHANGED ops
           ELSE /\ bulk' = [bulk EXCEPT !.queue = Tail(@), !.updated = upd, !.failed = fld]
                /\ ops' = ops + 1
                /\ calls' = [calls EXCEPT ![BulkCall] =
                                BeginTransition([IdleCall EXCEPT
                                                    !.op = "updateTaskStatus",
                                                    !.task = Head(bulk.queue),
                                                    !.target = bulk.target,
                                                    !.actor = "A"],
                                                tasks, Head(bulk.queue), bulk.target)]
    /\ UNCHANGED << tasks, reminders, board, cardList, now, outbox, sweeps, ticks,
                    unreachable, digestVars, schedVars, httpVars, cleanupLog >>

\* an empty tasks table; A is an owner
InitStatus ==
    /\ ServicesIdle
    /\ InitRest
    /\ roles = [u \in Users |-> IF u = "A" THEN "owner" ELSE "employee"]
    /\ settings = [u \in Users |-> NoSettingsRow]

\* the operations that may touch a task: creation, a transition, an
\* assignment, a bulk update, the reminders job, the digest job, cleanup
NextStatus ==
    \/ \E s \in {TODO, IN_PROGRESS} : CreateTask("t1", s)
    \/ \E s \in {DONE, Archived} : StartUpdateStatusBy("c2", "t1", s, "A")
    \/ StartAssign("c2", "t1", "B")
    \/ \E s \in {IN_REVIEW, Archived} : StartBulk(<< "t1", "t2" >>, s)
    \/ BulkNext
    \/ \E c \in Calls : ListsResolved(c)
    \/ \E c \in Calls : BoardMovesCard(c)
    \/ \E c \in Calls : PersistStatus(c)
    \/ \E c \in Calls : BoardCallFails(c)
    \/ Finish("c2")
    \/ Sweep
    \/ StartDigest("morning")
    \/ DigestStep
    \/ FinishDigest
    \/ cleanupExpired

StatusSpec == InitStatus /\ [][NextStatus]_vars

\* ------------------------------------------------- claims: status invariant
\* C31: the persisted status of every stored task is one of todo,
\* in_progress, in_review, done.
C31_StatusInEnum ==
    \A t \in TaskIds :
        tasks[t].exists => tasks[t].status \in {"todo", "in_progress", "in_review", "done"}

\* a bulk update with a target outside the enumeration has failed for both
\* ids, after the creation of t1, its assignment with the automatic
\* transition, a sweep, a digest run and a cleanup run
C31_Witness ==
    /\ ~bulk.active
    /\ bulk.target = Archived
    /\ bulk.failed = << "t1", "t2" >>
    /\ tasks["t1"].exists
    /\ tasks["t1"].status = IN_PROGRESS
    /\ tasks["t1"].assignedTo = "B"
    /\ "updateCard" \in {calls["c2"].api[i] : i \in DOMAIN calls["c2"].api}
    /\ sweeps >= 1
    /\ digestRuns >= 1
    /\ cleanupLog # << >>

====
